---- MODULE Spec2Model ----
(***************************************************************************)
(* HivemojiGO: the block follower (cmd/server ingestLoop), the payload     *)
(* dispatcher (internal/processor) and the store (internal/storage),       *)
(* modelled as a state machine over the four SQL tables.                   *)
(***************************************************************************)
EXTENDS Integers, Sequences, FiniteSets, TLC

VARIABLES
    hivemoji_assets,      \* table hivemoji_assets: a set of rows
    hivemoji_chunk_sets,  \* table hivemoji_chunk_sets: a set of rows
    hivemoji_chunks,      \* table hivemoji_chunks: a set of rows
    sync_state,           \* table sync_state: the 'last_block' row, or no row
    chain,                \* the blocks the node has produced, by number
    pc,                   \* where the ingest goroutine is
    current,              \* ingestLoop's local variable current
    block,                \* the block ProcessBlock is iterating over
    idx,                  \* how many operations of block were consumed
    ret,                  \* what the last ProcessBlock call returned
    fetch,                \* what the last FetchBlock call returned
    run,                  \* ghost: this run's resume point and value read
    first,                \* ghost: the store when the first pass over a block began
    applied,              \* ghost: the payloads handled in this ProcessBlock call
    lastReg,              \* ghost: the most recent register/delete per (author, name)
    crashes,              \* how many times the process was stopped
    ctxDone,              \* the shutdown signal came: ctx.Done() is closed
    txs,                  \* the SaveChunk transactions of concurrent callers
    returned,             \* what each concurrent SaveChunk call returned
    assembledAt           \* ghost: the totals at which SaveChunk assembled each set

vars == <<hivemoji_assets, hivemoji_chunk_sets, hivemoji_chunks, sync_state,
          chain, pc, current, block, idx, ret, fetch, run, first, applied, lastReg,
          crashes, ctxDone, txs, returned, assembledAt>>

-----------------------------------------------------------------------------
(* Bounds of the model.                                                    *)

\* the highest block number the node produces
MaxBlock == 11
\* how many operations the produced blocks hold together
MaxChainOps == 2
\* the same, under the store's specification
MaxStoreOps == 3
\* how many times the process is stopped and started again
MaxCrashes == 1
\* how many callers run SaveChunk concurrently
MaxCallers == 2
\* the largest total a chunk passed to SaveChunk directly declares
MaxTotal == 2

\* the lowest block number the node serves
MinBlock == MaxBlock - 2
Blocks == MinBlock..MaxBlock
\* the values HIVE_START_BLOCK takes
StartBlocks == {MinBlock, MaxBlock}

-----------------------------------------------------------------------------
(* Go values: nil and pointers are optional values.                        *)

None == <<>>
Some(x) == <<x>>

\* strings.TrimSpace(s) == "" on the strings the model uses
IsBlank(s) == s \in {"", " ", "  "}

Max(a, b) == IF a > b THEN a ELSE b

-----------------------------------------------------------------------------
(* fmt.Sprintf("%d", n) and fmt.Sscan(value, &n): decimal text.            *)

Digits == <<"0", "1", "2", "3", "4", "5", "6", "7", "8", "9">>

RECURSIVE FormatNat(_)
FormatNat(n) == IF n < 10 THEN <<Digits[n + 1]>>
                ELSE FormatNat(n \div 10) \o <<Digits[(n % 10) + 1]>>

\* fmt.Sprintf("%d", number)
Sprintf_d(n) == IF n < 0 THEN <<"-">> \o FormatNat(-n) ELSE FormatNat(n)

DigitValue(c) == CHOOSE d \in 0..9 : Digits[d + 1] = c

IsDigit(c) == \E d \in 0..9 : Digits[d + 1] = c

RECURSIVE ScanNat(_)
ScanNat(s) == IF Len(s) = 0 THEN 0
              ELSE ScanNat(SubSeq(s, 1, Len(s) - 1)) * 10 + DigitValue(s[Len(s)])

\* fmt.Sscan(value, &n) for an int64: an optional sign and decimal digits
Sscan(s) ==
    LET body == IF Len(s) > 0 /\ s[1] \in {"-", "+"} THEN Tail(s) ELSE s
    IN  IF Len(body) = 0 \/ \E i \in DOMAIN body : ~IsDigit(body[i])
        THEN [n |-> 0, err |-> "scan"]
        ELSE [n |-> IF Len(s) > 0 /\ s[1] = "-" THEN -ScanNat(body) ELSE ScanNat(body),
              err |-> ""]

-----------------------------------------------------------------------------
(* encoding/base64, crypto/sha256 and strings.EqualFold on the byte        *)
(* strings the model uses (the values are the real ones).                  *)

\* base64.StdEncoding.DecodeString
Base64Decode(s) ==
    CASE s = ""     -> [bytes |-> <<>>, err |-> ""]
      [] s = "QQ==" -> [bytes |-> <<65>>, err |-> ""]
      [] s = "Qg==" -> [bytes |-> <<66>>, err |-> ""]
      [] s = "QUI=" -> [bytes |-> <<65, 66>>, err |-> ""]
      [] OTHER      -> [bytes |-> <<>>, err |-> "base64"]

\* hex.EncodeToString(sha256.Sum256(buf)), first 16 hex digits
Sha256Hex(buf) ==
    CASE buf = <<>>           -> "e3b0c44298fc1c14"
      [] buf = <<65>>         -> "559aead08264d579"
      [] buf = <<66>>         -> "df7e70e5021544f4"
      [] buf = <<65, 65>>     -> "58bb119c35513a45"
      [] buf = <<65, 66>>     -> "38164fbd17603d73"
      [] buf = <<66, 65>>     -> "296d71a7f66e75b7"
      [] buf = <<66, 66>>     -> "fc686c314491e1f6"
      [] buf = <<65, 65, 65>> -> "cb1ad2119d8fafb6"
      [] buf = <<65, 65, 66>> -> "c50128cf99c06e86"
      [] buf = <<65, 66, 65>> -> "3814c41d30b8d801"
      [] buf = <<65, 66, 66>> -> "dafc290510d6daa0"
      [] buf = <<66, 65, 65>> -> "37e0630b2746b95c"
      [] buf = <<66, 65, 66>> -> "5a421865e06163d2"
      [] buf = <<66, 66, 65>> -> "735ff2109a063ee1"
      [] buf = <<66, 66, 66>> -> "dcdb704109a45478"

\* strings.ToLower on the checksum strings the model uses
ToLower(s) ==
    CASE s = "559AEAD08264D579" -> "559aead08264d579"
      [] s = "38164FBD17603D73" -> "38164fbd17603d73"
      [] OTHER -> s

\* strings.EqualFold
EqualFold(a, b) == ToLower(a) = ToLower(b)

-----------------------------------------------------------------------------
(* internal/storage: the store.  A table is the set of its rows; the       *)
(* primary keys are kept by the ON CONFLICT clauses below.                 *)

\* nullIfEmpty: a blank string is stored as NULL
nullIfEmpty(value) == IF IsBlank(value) THEN None ELSE Some(value)

\* nullBytes: an empty byte string is stored as NULL
nullBytes(b) == IF Len(b) = 0 THEN None ELSE Some(b)

\* fallbackMime: NULL without a fallback set
fallbackMime(set) == IF set = None THEN None ELSE Some(set[1].Mime)

\* fallbackData with a fault: always NULL
fallbackDataDropped(set) == None

\* fallbackData: NULL without a fallback set
fallbackData(set) == IF set = None THEN None ELSE Some(set[1].Data)

AssetAt(assets, author, name) == {r \in assets : r.author = author /\ r.name = name}

\* Store.UpsertV1: INSERT ... ON CONFLICT (author, name) DO UPDATE; the
\* UPDATE's SET list names every column but checksum.
UpsertV1(assets, payload) ==
    LET old == AssetAt(assets, payload.Author, payload.Name)
        row == [name |-> payload.Name, version |-> 1, author |-> payload.Author,
                upload_id |-> None, mime |-> payload.Mime,
                width |-> payload.Width, height |-> payload.Height,
                data |-> payload.Data, animated |-> payload.Animated,
                loop |-> payload.Loop,
                fallback_mime |-> nullIfEmpty(payload.FallbackMime),
                fallback_data |-> nullBytes(payload.FallbackData),
                checksum |-> None]
    IN  IF old = {} THEN assets \cup {row}
        ELSE (assets \ old) \cup {[row EXCEPT !.checksum = o.checksum] : o \in old}

\* DeleteEmoji with a fault: DELETE ... WHERE name only
DeleteByName(assets, author, name) ==
    IF IsBlank(author)
    THEN [assets |-> assets, err |-> "author is required for delete"]
    ELSE [assets |-> {r \in assets : r.name # name}, err |-> ""]

\* DeleteEmoji with a fault: without the author check
DeleteAnyAuthor(assets, author, name) ==
    [assets |-> assets \ AssetAt(assets, author, name), err |-> ""]

\* Store.DeleteEmoji: the author check, then DELETE ... WHERE author AND name
DeleteEmoji(assets, author, name) ==
    IF IsBlank(author)
    THEN [assets |-> assets, err |-> "author is required for delete"]
    ELSE [assets |-> assets \ AssetAt(assets, author, name), err |-> ""]

\* UpsertFromChunks with a fault: a call without a fallback set keeps the
\* fallback the row had (COALESCE(EXCLUDED.fallback_*, old))
UpsertFromChunksKeepingFallback(assets, main, fallback) ==
    IF main = None THEN [assets |-> assets, err |-> "main set is required"]
    ELSE LET m == main[1]
             old == AssetAt(assets, m.Author, m.Name)
             row == [name |-> m.Name, version |-> m.Version, author |-> m.Author,
                     upload_id |-> Some(m.UploadID), mime |-> m.Mime,
                     width |-> m.Width, height |-> m.Height,
                     data |-> m.Data, animated |-> m.Animated, loop |-> m.Loop,
                     fallback_mime |-> fallbackMime(fallback),
                     fallback_data |-> fallbackData(fallback),
                     checksum |-> Some(m.Checksum)]
         IN  [assets |-> IF old = {} \/ fallback # None
                         THEN (assets \ old) \cup {row}
                         ELSE {[row EXCEPT !.fallback_mime = o.fallback_mime,
                                           !.fallback_data = o.fallback_data] : o \in old}
                              \cup (assets \ old),
              err |-> ""]

\* Store.UpsertFromChunks: INSERT ... ON CONFLICT (author, name) DO UPDATE
UpsertFromChunks(assets, main, fallback) ==
    IF main = None THEN [assets |-> assets, err |-> "main set is required"]
    ELSE LET m == main[1]
             row == [name |-> m.Name, version |-> m.Version, author |-> m.Author,
                     upload_id |-> Some(m.UploadID), mime |-> m.Mime,
                     width |-> m.Width, height |-> m.Height,
                     data |-> m.Data, animated |-> m.Animated, loop |-> m.Loop,
                     fallback_mime |-> fallbackMime(fallback),
                     fallback_data |-> fallbackData(fallback),
                     checksum |-> Some(m.Checksum)]
         IN  [assets |-> (assets \ AssetAt(assets, m.Author, m.Name)) \cup {row},
              err |-> ""]

SetAt(sets, uploadID, kind) == {r \in sets : r.upload_id = uploadID /\ r.kind = kind}

ChunksOf(chunks, uploadID, kind) ==
    {r \in chunks : r.upload_id = uploadID /\ r.kind = kind}

\* UpsertChunkSet with a fault: the SET list resets completed and data
UpsertChunkSetResetting(sets, chunk) ==
    (sets \ SetAt(sets, chunk.ID, chunk.Kind)) \cup
    {[upload_id |-> chunk.ID, kind |-> chunk.Kind, name |-> chunk.Name,
      author |-> chunk.Author, version |-> chunk.Version,
      mime |-> chunk.Mime, width |-> chunk.Width, height |-> chunk.Height,
      animated |-> chunk.Animated, loop |-> chunk.Loop,
      checksum |-> chunk.Checksum, total |-> chunk.Total,
      completed |-> FALSE, data |-> None]}

\* UpsertChunkSet with a fault: ON CONFLICT (upload_id, kind) DO NOTHING
UpsertChunkSetKeepingFirst(sets, chunk) ==
    IF SetAt(sets, chunk.ID, chunk.Kind) # {} THEN sets
    ELSE sets \cup
         {[upload_id |-> chunk.ID, kind |-> chunk.Kind, name |-> chunk.Name,
           author |-> chunk.Author, version |-> chunk.Version,
           mime |-> chunk.Mime, width |-> chunk.Width, height |-> chunk.Height,
           animated |-> chunk.Animated, loop |-> chunk.Loop,
           checksum |-> chunk.Checksum, total |-> chunk.Total,
           completed |-> FALSE, data |-> None]}

\* SaveChunk, first statement: INSERT INTO hivemoji_chunk_sets ... ON CONFLICT
\* (upload_id, kind) DO UPDATE; completed and data are not in the SET list.
UpsertChunkSet(sets, chunk) ==
    LET old == SetAt(sets, chunk.ID, chunk.Kind)
        row == [upload_id |-> chunk.ID, kind |-> chunk.Kind, name |-> chunk.Name,
                author |-> chunk.Author, version |-> chunk.Version,
                mime |-> chunk.Mime, width |-> chunk.Width, height |-> chunk.Height,
                animated |-> chunk.Animated, loop |-> chunk.Loop,
                checksum |-> chunk.Checksum, total |-> chunk.Total,
                completed |-> FALSE, data |-> None]
    IN  IF old = {} THEN sets \cup {row}
        ELSE (sets \ old) \cup
             {[row EXCEPT !.completed = o.completed, !.data = o.data] : o \in old}

\* InsertChunk with a fault: ON CONFLICT (upload_id, kind, seq) DO UPDATE
InsertChunkReplacing(chunks, chunk) ==
    {r \in chunks : ~(r.upload_id = chunk.ID /\ r.kind = chunk.Kind /\ r.seq = chunk.Seq)}
    \cup {[upload_id |-> chunk.ID, kind |-> chunk.Kind, seq |-> chunk.Seq,
           total |-> chunk.Total, data |-> chunk.Data]}

\* SaveChunk, second statement: INSERT INTO hivemoji_chunks ... ON CONFLICT
\* (upload_id, kind, seq) DO NOTHING
InsertChunk(chunks, chunk) ==
    IF \E r \in ChunksOf(chunks, chunk.ID, chunk.Kind) : r.seq = chunk.Seq
    THEN chunks
    ELSE chunks \cup {[upload_id |-> chunk.ID, kind |-> chunk.Kind, seq |-> chunk.Seq,
                       total |-> chunk.Total, data |-> chunk.Data]}

\* SaveChunk, third statement: SELECT count(*) FROM hivemoji_chunks WHERE ...
CountChunks(chunks, uploadID, kind) == Cardinality(ChunksOf(chunks, uploadID, kind))

\* OrderBySeq with a fault: ORDER BY seq DESC
RECURSIVE OrderBySeqDesc(_)
OrderBySeqDesc(rows) ==
    IF rows = {} THEN <<>>
    ELSE LET hi == CHOOSE r \in rows : \A q \in rows : r.seq >= q.seq
         IN  <<hi>> \o OrderBySeqDesc(rows \ {hi})

\* SELECT seq, data ... ORDER BY seq: the rows in ascending seq order
RECURSIVE OrderBySeq(_)
OrderBySeq(rows) ==
    IF rows = {} THEN <<>>
    ELSE LET lo == CHOOSE r \in rows : \A q \in rows : r.seq <= q.seq
         IN  <<lo>> \o OrderBySeq(rows \ {lo})

\* buf = append(buf, part...) over the parts
RECURSIVE Concat(_)
Concat(parts) == IF Len(parts) = 0 THEN <<>> ELSE Head(parts).data \o Concat(Tail(parts))

\* assembleChunks' checksum test: an empty checksum is not verified
ChecksumOk(checksum, buf) == checksum = "" \/ EqualFold(checksum, Sha256Hex(buf))

\* Store.assembleChunks, on the rows the transaction sees
assembleChunks(sets, chunks, uploadID, kind) ==
    LET parts == OrderBySeq(ChunksOf(chunks, uploadID, kind))
        meta  == SetAt(sets, uploadID, kind)
        fail(e) == [sets |-> sets, set |-> None, err |-> e]
    IN  IF Len(parts) = 0 THEN fail("no chunks to assemble")
        ELSE IF meta = {} THEN fail("no rows")
        ELSE LET m   == CHOOSE r \in meta : TRUE
                 buf == Concat(parts)
                 set == [UploadID |-> m.upload_id, Kind |-> m.kind, Name |-> m.name,
                         Author |-> m.author, Version |-> m.version, Mime |-> m.mime,
                         Width |-> m.width, Height |-> m.height,
                         Animated |-> m.animated, Loop |-> m.loop,
                         Checksum |-> m.checksum, Data |-> buf]
             IN  IF Len(parts) # m.total THEN fail("chunk count mismatch")
                 ELSE IF ~ChecksumOk(m.checksum, buf) THEN fail("checksum mismatch")
                 ELSE [sets |-> (sets \ meta) \cup
                                {[m EXCEPT !.data = Some(buf), !.completed = TRUE]},
                       set |-> Some(set), err |-> ""]

\* BelowTotal with a fault: assembles only at count = total
NotAtTotal(count, total) == count # total

\* SaveChunk's test after the count: commit without assembling
BelowTotal(count, total) == count < total

\* SaveChunk with a fault: the statements before a failed assembly are kept
SaveChunkNoRollback(sets, chunks, chunk) ==
    LET sets1   == UpsertChunkSet(sets, chunk)
        chunks1 == InsertChunk(chunks, chunk)
        count   == CountChunks(chunks1, chunk.ID, chunk.Kind)
        asm     == assembleChunks(sets1, chunks1, chunk.ID, chunk.Kind)
    IN  IF BelowTotal(count, chunk.Total)
        THEN [sets |-> sets1, chunks |-> chunks1, set |-> None, err |-> ""]
        ELSE IF asm.err # ""
        THEN [sets |-> sets1, chunks |-> chunks1, set |-> None, err |-> asm.err]
        ELSE [sets |-> asm.sets, chunks |-> chunks1, set |-> asm.set, err |-> ""]

\* Store.SaveChunk run alone: one transaction, rolled back on any error
SaveChunk(sets, chunks, chunk) ==
    LET sets1   == UpsertChunkSet(sets, chunk)
        chunks1 == InsertChunk(chunks, chunk)
        count   == CountChunks(chunks1, chunk.ID, chunk.Kind)
        asm     == assembleChunks(sets1, chunks1, chunk.ID, chunk.Kind)
    IN  IF BelowTotal(count, chunk.Total)
        THEN [sets |-> sets1, chunks |-> chunks1, set |-> None, err |-> ""]
        ELSE IF asm.err # ""
        THEN [sets |-> sets, chunks |-> chunks, set |-> None, err |-> asm.err]
        ELSE [sets |-> asm.sets, chunks |-> chunks1, set |-> asm.set, err |-> ""]

\* GetChunkSet with a fault: without the test of completed
GetChunkSetAny(sets, uploadID, kind) ==
    LET found == SetAt(sets, uploadID, kind)
    IN  IF found = {} THEN None
        ELSE LET m == CHOOSE r \in found : TRUE
             IN  Some([UploadID |-> m.upload_id, Kind |-> m.kind, Name |-> m.name,
                       Author |-> m.author, Version |-> m.version, Mime |-> m.mime,
                       Width |-> m.width, Height |-> m.height,
                       Animated |-> m.animated, Loop |-> m.loop,
                       Checksum |-> m.checksum,
                       Data |-> IF m.data = None THEN <<>> ELSE m.data[1]])

\* Store.GetChunkSet: the completed set of (upload_id, kind), or nil
GetChunkSet(sets, uploadID, kind) ==
    LET found == {r \in SetAt(sets, uploadID, kind) : r.completed}
    IN  IF found = {} THEN None
        ELSE LET m == CHOOSE r \in found : TRUE
             IN  Some([UploadID |-> m.upload_id, Kind |-> m.kind, Name |-> m.name,
                       Author |-> m.author, Version |-> m.version, Mime |-> m.mime,
                       Width |-> m.width, Height |-> m.height,
                       Animated |-> m.animated, Loop |-> m.loop,
                       Checksum |-> m.checksum,
                       Data |-> IF m.data = None THEN <<>> ELSE m.data[1]])

\* SetLastBlock with a fault: the row gets the number before
SetLastBlockPrev(number) == Some(Sprintf_d(number - 1))

\* Store.SetLastBlock: upsert of the 'last_block' row
SetLastBlock(number) == Some(Sprintf_d(number))

\* Store.LastBlock: 0 without a row, else the scanned value
LastBlock(state) ==
    IF state = None THEN [n |-> 0, err |-> ""] ELSE Sscan(state[1])

\* Store.GetAsset: the row of (author, name), or nil
GetAsset(assets, author, name) ==
    LET found == AssetAt(assets, author, name)
    IN  IF found = {} THEN None ELSE Some(CHOOSE r \in found : TRUE)

\* the mime types of allowedEmojiMimes
allowedEmojiMimes == {"image/gif", "image/png", "image/webp"}

\* NormalizeEmojiMime on the mime strings the model uses: trimmed, parsed as a
\* media type, lower-cased, then looked up in allowedEmojiMimes
NormalizeEmojiMime(raw) ==
    LET mediaType == CASE raw \in {"image/webp", " image/webp ", "IMAGE/WEBP"} -> "image/webp"
                       [] raw \in {"image/png", "image/png; q=1"} -> "image/png"
                       [] raw = "image/gif" -> "image/gif"
                       [] raw = "text/html" -> "text/html"
                       [] OTHER -> ""
    IN  IF IsBlank(raw) \/ mediaType \notin allowedEmojiMimes
        THEN [mime |-> "", ok |-> FALSE]
        ELSE [mime |-> mediaType, ok |-> TRUE]

-----------------------------------------------------------------------------
(* internal/processor: the payload dispatcher.  A handler's result is the  *)
(* three tables after it, its error ("" for nil) and, for the ghosts, the  *)
(* register or delete it carried out.  dbFail names the store call of the  *)
(* handler that the database fails (0: none).                              *)

\* firstNonEmpty(custom.RequiredPostingAuths, custom.RequiredAuths)
\* firstNonEmpty with a fault: the first posting account even when it is empty
firstOfPrimary(primary, fallback) ==
    IF Len(primary) > 0 THEN primary[1]
    ELSE IF Len(fallback) > 0 THEN fallback[1]
    ELSE ""

firstNonEmpty(primary, fallback) ==
    IF Len(primary) > 0 /\ primary[1] # "" THEN primary[1]
    ELSE IF Len(fallback) > 0 THEN fallback[1]
    ELSE ""

\* parseLoop with a fault: false decoded as the integer 0
parseLoopFalseAsZero(raw) ==
    CASE raw \in {"", "null"} -> [loop |-> None, err |-> ""]
      [] raw \in {"false", "true", "0"} -> [loop |-> Some(0), err |-> ""]
      [] raw = "7"            -> [loop |-> Some(7), err |-> ""]
      [] OTHER                -> [loop |-> None, err |-> "loop must be boolean or integer"]

\* parseLoop on the raw JSON texts the model uses
parseLoop(raw) ==
    CASE raw \in {"", "null"} -> [loop |-> None, err |-> ""]
      [] raw = "false"        -> [loop |-> None, err |-> ""]
      [] raw = "true"         -> [loop |-> Some(0), err |-> ""]
      [] raw = "0"            -> [loop |-> Some(0), err |-> ""]
      [] raw = "7"            -> [loop |-> Some(7), err |-> ""]
      [] OTHER                -> [loop |-> None, err |-> "loop must be boolean or integer"]

Result(assets, sets, chunks, err, event) ==
    [assets |-> assets, sets |-> sets, chunks |-> chunks, err |-> err, event |-> event]

\* Processor.handleCompletedSet, after SaveChunk returned set
handleCompletedSet(assets, sets, chunks, set, dbFail) ==
    LET s == set[1]
        unchanged(e) == Result(assets, sets, chunks, e, None)
    IN  CASE s.Kind = "main" ->
               IF dbFail = 2 THEN unchanged("store")
               ELSE LET fallback == GetChunkSet(sets, s.UploadID, "fallback")
                        up == UpsertFromChunks(assets, set, fallback)
                    IN  IF dbFail = 3 THEN unchanged("store")
                        ELSE Result(up.assets, sets, chunks, up.err,
                                    IF up.err = ""
                                    THEN Some([kind |-> "register", author |-> s.Author,
                                               name |-> s.Name, data |-> s.Data])
                                    ELSE None)
          [] s.Kind = "fallback" ->
               IF dbFail = 2 THEN unchanged("store")
               ELSE LET mainSet == GetChunkSet(sets, s.UploadID, "main")
                    IN  IF mainSet = None THEN unchanged("")
                        ELSE IF dbFail = 3 THEN unchanged("store")
                        ELSE LET up == UpsertFromChunks(assets, mainSet, set)
                             IN  Result(up.assets, sets, chunks, up.err, None)
          [] OTHER -> unchanged("unknown chunk kind")

\* DefaultKind with a fault: the kind is stored as sent
KindAsSent(kind) == kind

\* the kind handleV2 hands to SaveChunk
DefaultKind(kind) == IF kind = "" THEN "main" ELSE kind

\* handleV2 with a fault: the test of total before that of the manifest
handleV2TotalFirst(assets, sets, chunks, msg, author, dbFail) ==
    LET unchanged(e) == Result(assets, sets, chunks, e, None)
        loop == parseLoop(msg.Loop)
        data == Base64Decode(msg.Data)
        chunk == [ID |-> msg.ID, Author |-> author, Name |-> msg.Name,
                  Version |-> msg.Version, Mime |-> msg.Mime, Width |-> msg.Width,
                  Height |-> msg.Height, Animated |-> msg.Animated,
                  Loop |-> loop.loop, Checksum |-> msg.Checksum,
                  Kind |-> DefaultKind(msg.Kind), Seq |-> msg.Seq,
                  Total |-> msg.Total, Data |-> data.bytes]
        saved == SaveChunk(sets, chunks, chunk)
    IN  IF msg.Op \notin {"chunk", "register", ""} THEN unchanged("unsupported v2 op")
        ELSE IF msg.Total <= 0 THEN unchanged("total must be > 0")
        ELSE IF msg.Op = "register" /\ msg.Data = "" THEN unchanged("")
        ELSE IF msg.Seq <= 0 THEN unchanged("")
        ELSE IF loop.err # "" THEN unchanged("loop")
        ELSE IF data.err # "" THEN unchanged("decode v2 chunk")
        ELSE IF dbFail = 1 THEN unchanged("store")
        ELSE IF saved.err # ""
        THEN Result(assets, saved.sets, saved.chunks, saved.err, None)
        ELSE IF saved.set = None THEN Result(assets, saved.sets, saved.chunks, "", None)
        ELSE handleCompletedSet(assets, saved.sets, saved.chunks, saved.set, dbFail)

\* handleV2 with a fault: without the test of seq
handleV2SeqUnchecked(assets, sets, chunks, msg, author, dbFail) ==
    LET unchanged(e) == Result(assets, sets, chunks, e, None)
        loop == parseLoop(msg.Loop)
        data == Base64Decode(msg.Data)
        chunk == [ID |-> msg.ID, Author |-> author, Name |-> msg.Name,
                  Version |-> msg.Version, Mime |-> msg.Mime, Width |-> msg.Width,
                  Height |-> msg.Height, Animated |-> msg.Animated,
                  Loop |-> loop.loop, Checksum |-> msg.Checksum,
                  Kind |-> DefaultKind(msg.Kind), Seq |-> msg.Seq,
                  Total |-> msg.Total, Data |-> data.bytes]
        saved == SaveChunk(sets, chunks, chunk)
    IN  IF msg.Op \notin {"chunk", "register", ""} THEN unchanged("unsupported v2 op")
        ELSE IF msg.Op = "register" /\ msg.Data = "" THEN unchanged("")
        ELSE IF msg.Total <= 0 THEN unchanged("total must be > 0")
        ELSE IF loop.err # "" THEN unchanged("loop")
        ELSE IF data.err # "" THEN unchanged("decode v2 chunk")
        ELSE IF dbFail = 1 THEN unchanged("store")
        ELSE IF saved.err # ""
        THEN Result(assets, saved.sets, saved.chunks, saved.err, None)
        ELSE IF saved.set = None THEN Result(assets, saved.sets, saved.chunks, "", None)
        ELSE handleCompletedSet(assets, saved.sets, saved.chunks, saved.set, dbFail)

\* Processor.handleV2
handleV2(assets, sets, chunks, msg, author, dbFail) ==
    LET unchanged(e) == Result(assets, sets, chunks, e, None)
        loop == parseLoop(msg.Loop)
        data == Base64Decode(msg.Data)
        chunk == [ID |-> msg.ID, Author |-> author, Name |-> msg.Name,
                  Version |-> msg.Version, Mime |-> msg.Mime, Width |-> msg.Width,
                  Height |-> msg.Height, Animated |-> msg.Animated,
                  Loop |-> loop.loop, Checksum |-> msg.Checksum,
                  Kind |-> DefaultKind(msg.Kind), Seq |-> msg.Seq,
                  Total |-> msg.Total, Data |-> data.bytes]
        saved == SaveChunk(sets, chunks, chunk)
    IN  IF msg.Op \notin {"chunk", "register", ""} THEN unchanged("unsupported v2 op")
        ELSE IF msg.Op = "register" /\ msg.Data = "" THEN unchanged("")
        ELSE IF msg.Total <= 0 THEN unchanged("total must be > 0")
        ELSE IF msg.Seq <= 0 THEN unchanged("")
        ELSE IF loop.err # "" THEN unchanged("loop")
        ELSE IF data.err # "" THEN unchanged("decode v2 chunk")
        ELSE IF dbFail = 1 THEN unchanged("store")
        ELSE IF saved.err # ""
        THEN Result(assets, saved.sets, saved.chunks, saved.err, None)
        ELSE IF saved.set = None THEN Result(assets, saved.sets, saved.chunks, "", None)
        ELSE handleCompletedSet(assets, saved.sets, saved.chunks, saved.set, dbFail)

\* Processor.handleV1
handleV1(assets, sets, chunks, msg, author, dbFail) ==
    LET unchanged(e) == Result(assets, sets, chunks, e, None)
        loop == parseLoop(msg.Loop)
        raw  == Base64Decode(msg.Data)
        fb   == IF msg.Fallback = None THEN [bytes |-> <<>>, err |-> ""]
                ELSE Base64Decode(msg.Fallback[1].Data)
        fallbackMimeV1 == IF msg.Fallback = None THEN "" ELSE msg.Fallback[1].Mime
        payload == [Name |-> msg.Name, Author |-> author, Mime |-> msg.Mime,
                    Width |-> msg.Width, Height |-> msg.Height, Data |-> raw.bytes,
                    Animated |-> msg.Animated, Loop |-> loop.loop,
                    FallbackMime |-> fallbackMimeV1, FallbackData |-> fb.bytes]
        del == DeleteEmoji(assets, author, msg.Name)
    IN  CASE msg.Op = "register" ->
               IF loop.err # "" THEN unchanged("loop")
               ELSE IF raw.err # "" THEN unchanged("decode v1 data")
               ELSE IF fb.err # "" THEN unchanged("decode fallback")
               ELSE IF dbFail = 1 THEN unchanged("store")
               ELSE Result(UpsertV1(assets, payload), sets, chunks, "",
                           Some([kind |-> "register", author |-> author,
                                 name |-> msg.Name, data |-> raw.bytes]))
          [] msg.Op = "delete" ->
               IF del.err # "" THEN unchanged(del.err)
               ELSE IF dbFail = 1 THEN unchanged("store")
               ELSE Result(del.assets, sets, chunks, "",
                           Some([kind |-> "delete", author |-> author,
                                 name |-> msg.Name, data |-> <<>>]))
          [] OTHER -> unchanged("unknown v1 op")

\* handlePayload with a fault: an unsupported version is logged and skipped
handlePayloadLenient(assets, sets, chunks, payload, author, dbFail) ==
    IF ~payload.Decodes THEN Result(assets, sets, chunks, "payload envelope", None)
    ELSE CASE payload.Version = 1 -> handleV1(assets, sets, chunks, payload, author, dbFail)
           [] payload.Version = 2 -> handleV2(assets, sets, chunks, payload, author, dbFail)
           [] OTHER -> Result(assets, sets, chunks, "", None)

\* Processor.handlePayload: the envelope, then the handler of its version
handlePayload(assets, sets, chunks, payload, author, dbFail) ==
    IF ~payload.Decodes THEN Result(assets, sets, chunks, "payload envelope", None)
    ELSE CASE payload.Version = 1 -> handleV1(assets, sets, chunks, payload, author, dbFail)
           [] payload.Version = 2 -> handleV2(assets, sets, chunks, payload, author, dbFail)
           [] OTHER -> Result(assets, sets, chunks, "unsupported version", None)

\* how many store calls handlePayload makes when the database fails none
StoreCalls(assets, sets, chunks, payload, author) ==
    IF handlePayload(assets, sets, chunks, payload, author, 1).err # "store" THEN 0
    ELSE IF handlePayload(assets, sets, chunks, payload, author, 2).err # "store" THEN 1
    ELSE IF handlePayload(assets, sets, chunks, payload, author, 3).err # "store" THEN 2
    ELSE 3

\* CustomJSONOp.ExtractPayload: the json field, or an error when it is missing
ExtractPayload(custom) ==
    IF custom.JSON = None THEN [payload |-> None, err |-> "missing json field"]
    ELSE [payload |-> custom.JSON, err |-> ""]

\* Hivemoji with a fault: without the test of the custom_json id
HivemojiAnyId(op) ==
    IF op.Type # "custom_json" THEN None
    ELSE IF ~op.Decodes THEN None
    ELSE IF ExtractPayload(op).err # "" THEN None
    ELSE Some([payload |-> ExtractPayload(op).payload[1],
               author |-> firstNonEmpty(op.RequiredPostingAuths, op.RequiredAuths)])

\* ProcessBlock's filter in front of handlePayload: the payload and author of
\* a hivemoji custom_json operation, None for an operation it skips
Hivemoji(op) ==
    IF op.Type # "custom_json" THEN None
    ELSE IF ~op.Decodes THEN None
    ELSE IF op.ID # "hivemoji" THEN None
    ELSE IF ExtractPayload(op).err # "" THEN None
    ELSE Some([payload |-> ExtractPayload(op).payload[1],
               author |-> firstNonEmpty(op.RequiredPostingAuths, op.RequiredAuths)])

\* the order of ProcessBlock's two loops: transactions, then their operations
RECURSIVE Operations(_)
Operations(transactions) ==
    IF Len(transactions) = 0 THEN <<>>
    ELSE Head(transactions) \o Operations(Tail(transactions))

-----------------------------------------------------------------------------
(* The operations the node serves.                                         *)

\* a v1 or v2 payload as it decodes into the handlers' msg structs
Payload(version, op, name, data) ==
    [Decodes |-> TRUE, Version |-> version, Op |-> op, Name |-> name,
     Mime |-> "image/webp", Width |-> 96, Height |-> 96, Data |-> data,
     Animated |-> FALSE, Loop |-> "", Fallback |-> None,
     ID |-> "", Kind |-> "", Seq |-> 0, Total |-> 0, Checksum |-> ""]

\* a v2 chunk payload
Chunk(id, kind, seq, total, name, data, checksum) ==
    [Payload(2, "chunk", name, data) EXCEPT
        !.ID = id, !.Kind = kind, !.Seq = seq, !.Total = total, !.Checksum = checksum]

\* a custom_json operation of the hivemoji namespace signed with posting authority
CustomJSON(signer, payload) ==
    [Type |-> "custom_json", Decodes |-> TRUE, ID |-> "hivemoji", JSON |-> Some(payload),
     RequiredAuths |-> <<>>, RequiredPostingAuths |-> <<signer>>]

RegisterSmile == CustomJSON("alice", Payload(1, "register", "smile", "Qg=="))
DeleteSmile   == CustomJSON("alice", Payload(1, "delete", "smile", ""))
\* upload U1, main, complete in one chunk, checksum of "A" in upper case
MainWhole     == CustomJSON("alice",
                    Chunk("U1", "main", 1, 1, "smile", "QQ==", "559AEAD08264D579"))
\* upload U1, main, first of two chunks, checksum of "AB"
MainFirst     == CustomJSON("alice",
                    Chunk("U1", "main", 1, 2, "smile", "QQ==", "38164fbd17603d73"))
\* upload U1, main, second of two chunks, under another name, no checksum
MainSecond    == CustomJSON("alice",
                    Chunk("U1", "", 2, 2, "wink", "Qg==", ""))
\* upload U1, fallback, complete in one chunk, signed by another account
FallbackWhole == CustomJSON("bob",
                    Chunk("U1", "fallback", 1, 1, "smile", "Qg==", ""))

\* a delete that no account signed
DeleteUnsigned == [DeleteSmile EXCEPT !.RequiredPostingAuths = <<>>]

\* the operations of the follower's specification
Menu == {RegisterSmile, DeleteSmile, DeleteUnsigned}

\* the operations of the store's specification
StoreMenu == {RegisterSmile, DeleteSmile, MainWhole, MainFirst, MainSecond, FallbackWhole}

\* v1 registers of the same name by another account, with a mime outside
\* the accepted ones, and under an empty name
RegisterSmileBob == CustomJSON("bob", Payload(1, "register", "smile", "QQ=="))
RegisterHtml     == CustomJSON("alice",
                       [Payload(1, "register", "page", "QQ==") EXCEPT !.Mime = "text/html"])
RegisterNameless == CustomJSON("alice", Payload(1, "register", "", "QQ=="))

\* the operations of the v1 specification
V1Menu == {RegisterSmile, DeleteSmile, RegisterSmileBob, RegisterHtml, RegisterNameless}

\* upload U2 of the name grin: the two chunks of its main set, the first with
\* the checksum of "AB", the second with none and under the default kind
GrinMain1    == CustomJSON("alice",
                   Chunk("U2", "main", 1, 2, "grin", "QQ==", "38164fbd17603d73"))
GrinMain2    == CustomJSON("alice",
                   Chunk("U2", "", 2, 2, "grin", "Qg==", ""))
\* its fallback set, one chunk of another mime
GrinFallback == CustomJSON("alice",
                   [Chunk("U2", "fallback", 1, 1, "grin", "Qg==", "")
                       EXCEPT !.Mime = "image/png"])
\* the second main chunk declaring the checksum of "A"
GrinBadFinal == CustomJSON("alice",
                   Chunk("U2", "main", 2, 2, "grin", "Qg==", "559aead08264d579"))
\* a third main chunk that declares a total of four and no checksum
StrayTail    == CustomJSON("alice", Chunk("U2", "main", 3, 4, "grin", "Qg==", ""))

\* the operations of the upload specification
UploadMenu == {GrinMain1, GrinMain2, GrinFallback, GrinBadFinal, StrayTail}

\* hivemoji operations handlePayload and its handlers reject: a payload
\* that does not decode into the envelope, a version that is neither 1 nor 2,
\* a v1 op that is neither register nor delete, a v2 op that is not chunk,
\* register or empty
BadEnvelope == CustomJSON("alice", [Payload(0, "", "", "") EXCEPT !.Decodes = FALSE])
Version3    == CustomJSON("alice", Payload(3, "register", "smile", "Qg=="))
RenameV1    == CustomJSON("alice", Payload(1, "rename", "smile", ""))
DeleteV2    == CustomJSON("alice", Payload(2, "delete", "smile", ""))

\* the operations of the specification of rejected operations
RejectMenu == {BadEnvelope, Version3, RenameV1, DeleteV2, RegisterSmile}

\* v1 registers of smile by the raw JSON text of their loop field (that of
\* RegisterSmile is absent): null, false, true, the integer 7, a string
LoopNull  == CustomJSON("alice", [Payload(1, "register", "smile", "Qg==") EXCEPT !.Loop = "null"])
LoopFalse == CustomJSON("alice", [Payload(1, "register", "smile", "Qg==") EXCEPT !.Loop = "false"])
LoopTrue  == CustomJSON("alice", [Payload(1, "register", "smile", "Qg==") EXCEPT !.Loop = "true"])
LoopSeven == CustomJSON("alice", [Payload(1, "register", "smile", "Qg==") EXCEPT !.Loop = "7"])
LoopText  == CustomJSON("alice",
                [Payload(1, "register", "smile", "Qg==") EXCEPT !.Loop = "\"once\""])

\* the operations of the specification of the loop field
LoopMenu == {RegisterSmile, LoopNull, LoopFalse, LoopTrue, LoopSeven, LoopText}

\* a v1 register of smile signed with the given posting and active accounts
SignedRegister(posting, active) ==
    [CustomJSON("", Payload(1, "register", "smile", "Qg==")) EXCEPT
        !.RequiredPostingAuths = posting, !.RequiredAuths = active]

ActiveOnly       == SignedRegister(<<>>, <<"bob">>)
BlankPosting     == SignedRegister(<<"">>, <<"bob">>)
BothSigned       == SignedRegister(<<"alice">>, <<"bob">>)
Unsigned         == SignedRegister(<<>>, <<>>)
BlankPostingOnly == SignedRegister(<<"", "carol">>, <<>>)

\* the operations of the specification of the author
AuthorMenu == {RegisterSmile, ActiveOnly, BlankPosting, BothSigned, Unsigned,
               BlankPostingOnly}

\* operations ProcessBlock skips: one that is not a custom_json, a custom_json
\* of another id, one whose body does not decode into CustomJSONOp, and a
\* hivemoji one without json field
Transfer    == [RegisterSmile EXCEPT !.Type = "transfer"]
OtherId     == [RegisterSmile EXCEPT !.ID = "follow"]
Undecodable == [RegisterSmile EXCEPT !.Decodes = FALSE]
NoJson      == [RegisterSmile EXCEPT !.JSON = None]

\* the operations of the specification of skipped operations
SkipMenu == {Transfer, OtherId, Undecodable, NoJson, RegisterSmile}

\* chunks of upload U3 at the edges of handleV2: a sentinel chunk with seq 0,
\* one with neither seq nor total, and the two chunks of a set of kind thumb
Sentinel        == CustomJSON("alice", Chunk("U3", "main", 0, 1, "grin", "Qg==", ""))
SentinelNoTotal == CustomJSON("alice", Chunk("U3", "main", 0, 0, "grin", "Qg==", ""))
Thumb1          == CustomJSON("alice", Chunk("U3", "thumb", 1, 2, "grin", "QQ==", ""))
Thumb2          == CustomJSON("alice", Chunk("U3", "thumb", 2, 2, "grin", "Qg==", ""))

\* a v2 register without data: the manifest-only announcement of upload U3,
\* with neither seq nor total
ManifestOnly == CustomJSON("alice",
                   [Chunk("U3", "main", 0, 0, "grin", "", "") EXCEPT !.Op = "register"])

\* the operations of the specification of handleV2's edges
EdgeMenu == {ManifestOnly, Sentinel, SentinelNoTotal, Thumb1, Thumb2}

\* the operations of the specification with the shutdown signal
CancelMenu == {RegisterSmile, DeleteSmile, ManifestOnly}

\* a delete signed by an account name of one space
DeleteBlank == CustomJSON(" ", Payload(1, "delete", "smile", ""))
\* a register signed by an account name of one space
RegisterBlank == CustomJSON(" ", Payload(1, "register", "smile", "Qg=="))

\* the operations of the blank author's specification
DeleteMenu == {RegisterSmile, RegisterBlank, DeleteUnsigned, DeleteBlank}

\* the operations of the specification of progress: registers, a delete,
\* the two main chunks of upload U2, a register whose loop is a string and
\* a final chunk declaring the checksum of other bytes
LiveMenu == {RegisterSmile, DeleteSmile, GrinMain1, GrinMain2, LoopText, GrinBadFinal}

RECURSIVE SeqsOf(_, _)
SeqsOf(S, n) == IF n = 0 THEN {<<>>}
                ELSE {Append(t, x) : t \in SeqsOf(S, n - 1), x \in S}

\* the transactions of a block holding the operations os: one transaction,
\* or two with the first j operations in the first
Transactions(os) ==
    IF Len(os) = 0 THEN {<<>>}
    ELSE {<<os>>} \cup
         {<<SubSeq(os, 1, j), SubSeq(os, j + 1, Len(os))>> : j \in 1..(Len(os) - 1)}

RECURSIVE OpsOnChain(_, _)
OpsOnChain(c, n) ==
    IF n < MinBlock THEN 0
    ELSE (IF c[n] = None THEN 0 ELSE Len(Operations(c[n][1]))) + OpsOnChain(c, n - 1)

\* the blocks the node may produce next, given the operations produced so far
NewBlocks(menu, maxOps, c) ==
    UNION {UNION {Transactions(os) : os \in SeqsOf(menu, k)} :
              k \in 0..(maxOps - OpsOnChain(c, MaxBlock))}

-----------------------------------------------------------------------------
(* cmd/server ingestLoop and Processor.ProcessBlock.                       *)

\* ResumeBlock with a fault: resumes at the cursor, not after it
ResumeAtLast(startBlock, last) ==
    IF last > 0 /\ last > startBlock THEN last ELSE startBlock

\* ingestLoop's resume computation from cfg.StartBlock and the value read
ResumeBlock(startBlock, last) ==
    IF last > 0 /\ last + 1 > startBlock THEN last + 1 ELSE startBlock

\* RetryBlock with a fault: a block that could not be fetched is passed over
SkipBlock(cur) == cur + 1

\* ingestLoop after FetchBlock failed or returned nil: sleep and continue,
\* the next iteration fetches current again
RetryBlock(cur) == cur

\* AfterProcessBlock with a fault: current++ also after an error
AdvanceAlways(cur, err) == cur + 1

\* AfterProcessBlock with a fault: current is never incremented
NeverAdvance(cur, err) == cur

\* ingestLoop after ProcessBlock returned: continue on an error, else current++
AfterProcessBlock(cur, err) == IF err # "" THEN cur ELSE cur + 1

\* ReturnsOnError with a fault: a handler error is logged and skipped
ReturnsNever(err) == FALSE

\* ProcessBlock returns at the first handlePayload error
ReturnsOnError(err) == err # ""

\* StoreFailures with a fault: store calls go through on a cancelled context
StoreFailuresIgnoringCtx(done, calls) == 0..calls

\* which store call of a handler that makes calls of them fails (0: none):
\* pgx fails every call made on a cancelled context, so the first one fails
StoreFailures(done, calls) ==
    IF done THEN {IF calls = 0 THEN 0 ELSE 1} ELSE 0..calls

\* the error of a failed store call: ctx.Err() on a cancelled context
StoreError(done, err) == IF done /\ err = "store" THEN "context canceled" ELSE err

\* the operation ProcessBlock's loops reach after consumed operations
NextOperation(b, consumed) == Operations(b.Transactions)[consumed + 1]

\* ghost: the register or delete of a handler, recorded per (author, name)
RecordEvent(reg, event) ==
    IF event = None THEN reg
    ELSE LET e == event[1]
         IN  {r \in reg : ~(r.author = e.author /\ r.name = e.name)} \cup
             {[author |-> e.author, name |-> e.name,
               data |-> IF e.kind = "delete" THEN None ELSE Some(e.data)]}

Tables == <<hivemoji_assets, hivemoji_chunk_sets, hivemoji_chunks>>
Callers == <<txs, returned, assembledAt>>

Init ==
    /\ hivemoji_assets = {}
    /\ hivemoji_chunk_sets = {}
    /\ hivemoji_chunks = {}
    /\ sync_state = None
    /\ chain = [n \in Blocks |-> None]
    /\ pc = "down"
    /\ current = 0
    /\ block = None
    /\ idx = 0
    /\ ret = None
    /\ fetch = None
    /\ run = None
    /\ first = None
    /\ applied = <<>>
    /\ lastReg = {}
    /\ crashes = 0
    /\ ctxDone = FALSE
    /\ txs = <<>>
    /\ returned = <<>>
    /\ assembledAt = {}

\* ingestLoop up to its for loop: read the cursor, compute current
Start(startBlocks, readFailures) ==
    /\ pc = "down"
    /\ \E startBlock \in startBlocks, readFails \in readFailures :
          LET read == IF readFails THEN [n |-> 0, err |-> "store"]
                      ELSE LastBlock(sync_state)
          IN  /\ current' = ResumeBlock(startBlock, read.n)
              /\ run' = Some([StartBlock |-> startBlock, last |-> read.n,
                              err |-> read.err, cursor |-> sync_state,
                              resume |-> ResumeBlock(startBlock, read.n),
                              done |-> {}])
    /\ pc' = "loop"
    /\ UNCHANGED <<Tables, sync_state, chain, block, idx, ret, fetch, first, applied,
                   lastReg, crashes, ctxDone, Callers>>

\* one iteration of the loop up to ProcessBlock: proc.FetchBlock(ctx, current)
\* fails, returns nil (not yet produced) or returns the block
FetchBlock(menu, maxOps) ==
    /\ pc = "loop"
    /\ ~ctxDone
    /\ current <= MaxBlock
    /\ \/ /\ fetch' = Some([number |-> current, result |-> "error"])
          /\ current' = RetryBlock(current)
          /\ UNCHANGED <<chain, pc, block, idx, first, applied>>
       \/ /\ chain[current] = None
          /\ fetch' = Some([number |-> current, result |-> "nil"])
          /\ current' = RetryBlock(current)
          /\ UNCHANGED <<chain, pc, block, idx, first, applied>>
       \/ /\ \E transactions \in (IF chain[current] = None THEN NewBlocks(menu, maxOps, chain)
                                  ELSE {chain[current][1]}) :
                /\ chain' = [chain EXCEPT ![current] = Some(transactions)]
                /\ block' = Some([Number |-> current, Transactions |-> transactions])
          /\ fetch' = Some([number |-> current, result |-> "block"])
          /\ pc' = "process"
          /\ idx' = 0
          /\ applied' = <<>>
          /\ UNCHANGED current
          /\ first' = IF first # None /\ first[1].Number = current THEN first
                      ELSE Some([Number |-> current, assets |-> hivemoji_assets,
                                 sets |-> hivemoji_chunk_sets, chunks |-> hivemoji_chunks])
    /\ UNCHANGED <<Tables, sync_state, ret, run, lastReg, crashes, ctxDone, Callers>>

\* HandleOperation with a fault: ProcessBlock runs in one transaction, and a
\* handler error takes the tables back to what they were before the block
HandleOperationAtomic ==
    /\ pc = "process"
    /\ idx < Len(Operations(block[1].Transactions))
    /\ LET op == NextOperation(block[1], idx)
           h  == Hivemoji(op)
       IN  IF h = None
           THEN /\ idx' = idx + 1
                /\ UNCHANGED <<Tables, pc, block, ret, applied, lastReg>>
           ELSE \E dbFail \in StoreFailures(ctxDone,
                                   StoreCalls(hivemoji_assets, hivemoji_chunk_sets,
                                              hivemoji_chunks, h[1].payload, h[1].author)) :
                  LET r == handlePayload(hivemoji_assets, hivemoji_chunk_sets,
                                         hivemoji_chunks, h[1].payload, h[1].author, dbFail)
                      err == StoreError(ctxDone, r.err)
                  IN  /\ applied' = Append(applied, [op |-> op, err |-> err])
                      /\ lastReg' = RecordEvent(lastReg, r.event)
                      /\ IF ReturnsOnError(err)
                         THEN /\ hivemoji_assets' = first[1].assets
                              /\ hivemoji_chunk_sets' = first[1].sets
                              /\ hivemoji_chunks' = first[1].chunks
                              /\ ret' = Some([Number |-> block[1].Number, err |-> err])
                              /\ pc' = "loop"
                              /\ idx' = 0
                              /\ block' = None
                         ELSE /\ hivemoji_assets' = r.assets
                              /\ hivemoji_chunk_sets' = r.sets
                              /\ hivemoji_chunks' = r.chunks
                              /\ idx' = idx + 1
                              /\ UNCHANGED <<pc, block, ret>>
    /\ UNCHANGED <<sync_state, chain, current, fetch, run, first, crashes, ctxDone, Callers>>

\* ProcessBlock, one operation of the block: skipped, or handled with its
\* store calls; a handler error ends ProcessBlock and the loop sleeps
HandleOperation ==
    /\ pc = "process"
    /\ idx < Len(Operations(block[1].Transactions))
    /\ LET op == NextOperation(block[1], idx)
           h  == Hivemoji(op)
       IN  IF h = None
           THEN /\ idx' = idx + 1
                /\ UNCHANGED <<Tables, pc, block, ret, applied, lastReg>>
           ELSE \E dbFail \in StoreFailures(ctxDone,
                                   StoreCalls(hivemoji_assets, hivemoji_chunk_sets,
                                              hivemoji_chunks, h[1].payload, h[1].author)) :
                  LET r == handlePayload(hivemoji_assets, hivemoji_chunk_sets,
                                         hivemoji_chunks, h[1].payload, h[1].author, dbFail)
                      err == StoreError(ctxDone, r.err)
                  IN  /\ hivemoji_assets' = r.assets
                      /\ hivemoji_chunk_sets' = r.sets
                      /\ hivemoji_chunks' = r.chunks
                      /\ applied' = Append(applied, [op |-> op, err |-> err])
                      /\ lastReg' = RecordEvent(lastReg, r.event)
                      /\ IF ReturnsOnError(err)
                         THEN /\ ret' = Some([Number |-> block[1].Number, err |-> err])
                              /\ pc' = "loop"
                              /\ idx' = 0
                              /\ block' = None
                         ELSE /\ idx' = idx + 1
                              /\ UNCHANGED <<pc, block, ret>>
    /\ UNCHANGED <<sync_state, chain, current, fetch, run, first, crashes, ctxDone, Callers>>

\* ProcessBlock after its loops: SetLastBlock, then the loop's current++
FinishBlock ==
    /\ pc = "process"
    /\ idx = Len(Operations(block[1].Transactions))
    /\ \E err \in {StoreError(ctxDone, e) :
                      e \in {"", "store"} \ (IF ctxDone THEN {""} ELSE {})} :
          /\ sync_state' = IF err = "" THEN SetLastBlock(block[1].Number) ELSE sync_state
          /\ ret' = Some([Number |-> block[1].Number, err |-> err])
          /\ current' = AfterProcessBlock(current, err)
          /\ run' = IF err = ""
                    THEN Some([run[1] EXCEPT !.done = @ \cup {block[1].Number}])
                    ELSE run
    /\ pc' = "loop"
    /\ idx' = 0
    /\ block' = None
    /\ UNCHANGED <<Tables, chain, fetch, first, applied, lastReg, crashes, ctxDone, Callers>>

\* the process is stopped (a signal, a crash) wherever it is
Crash ==
    /\ pc # "down"
    /\ crashes < MaxCrashes
    /\ crashes' = crashes + 1
    /\ pc' = "down"
    /\ current' = 0
    /\ block' = None
    /\ idx' = 0
    /\ ret' = None
    /\ fetch' = None
    /\ run' = None
    /\ applied' = <<>>
    /\ ctxDone' = FALSE
    /\ UNCHANGED <<Tables, sync_state, chain, first, lastReg, Callers>>

\* the shutdown signal closes ctx.Done() while the loop runs
Cancel ==
    /\ pc \in {"loop", "process"}
    /\ ~ctxDone
    /\ ctxDone' = TRUE
    /\ UNCHANGED <<Tables, sync_state, chain, pc, current, block, idx, ret, fetch, run,
                   first, applied, lastReg, crashes, Callers>>

\* the select at the top of the loop: ctx.Done() is closed, ingestLoop returns
Stop ==
    /\ pc = "loop"
    /\ ctxDone
    /\ pc' = "stopped"
    /\ UNCHANGED <<Tables, sync_state, chain, current, block, idx, ret, fetch, run,
                   first, applied, lastReg, crashes, ctxDone, Callers>>

Next ==
    \/ Start(StartBlocks, BOOLEAN)
    \/ FetchBlock(Menu, MaxChainOps)
    \/ HandleOperation
    \/ FinishBlock
    \/ Crash

Spec == Init /\ [][Next]_vars

\* the follower on a fresh database with one configuration, over the
\* operations that exercise the store
NextStore ==
    \/ Start({MinBlock}, {FALSE})
    \/ FetchBlock(StoreMenu, MaxStoreOps)
    \/ HandleOperation
    \/ FinishBlock

SpecStore == Init /\ [][NextStore]_vars

\* the same follower over the v1 registers and deletes
NextV1 ==
    \/ Start({MinBlock}, {FALSE})
    \/ FetchBlock(V1Menu, MaxStoreOps)
    \/ HandleOperation
    \/ FinishBlock

SpecV1 == Init /\ [][NextV1]_vars

\* the same follower over the chunks of one v2 upload
NextUpload ==
    \/ Start({MinBlock}, {FALSE})
    \/ FetchBlock(UploadMenu, MaxStoreOps)
    \/ HandleOperation
    \/ FinishBlock

SpecUpload == Init /\ [][NextUpload]_vars

\* the same follower over operations the dispatcher rejects
NextReject ==
    \/ Start({MinBlock}, {FALSE})
    \/ FetchBlock(RejectMenu, MaxChainOps)
    \/ HandleOperation
    \/ FinishBlock

SpecReject == Init /\ [][NextReject]_vars

\* the follower until the shutdown signal and from it to ingestLoop's return
NextCancel ==
    \/ Start({MinBlock}, {FALSE})
    \/ FetchBlock(CancelMenu, MaxChainOps)
    \/ HandleOperation
    \/ FinishBlock
    \/ Cancel
    \/ Stop

SpecCancel == Init /\ [][NextCancel]_vars

\* the same follower over registers that differ in their loop field
NextLoop ==
    \/ Start({MinBlock}, {FALSE})
    \/ FetchBlock(LoopMenu, MaxChainOps)
    \/ HandleOperation
    \/ FinishBlock

SpecLoop == Init /\ [][NextLoop]_vars

\* the same follower over registers that differ in their signers
NextAuthor ==
    \/ Start({MinBlock}, {FALSE})
    \/ FetchBlock(AuthorMenu, MaxChainOps)
    \/ HandleOperation
    \/ FinishBlock

SpecAuthor == Init /\ [][NextAuthor]_vars

\* the same follower over operations ProcessBlock skips
NextSkip ==
    \/ Start({MinBlock}, {FALSE})
    \/ FetchBlock(SkipMenu, MaxChainOps)
    \/ HandleOperation
    \/ FinishBlock

SpecSkip == Init /\ [][NextSkip]_vars

\* the same follower over the v2 operations at the edges of handleV2
NextEdge ==
    \/ Start({MinBlock}, {FALSE})
    \/ FetchBlock(EdgeMenu, MaxChainOps)
    \/ HandleOperation
    \/ FinishBlock

SpecEdge == Init /\ [][NextEdge]_vars

\* the same follower over deletes without a signing account
NextDelete ==
    \/ Start({MinBlock}, {FALSE})
    \/ FetchBlock(DeleteMenu, MaxChainOps)
    \/ HandleOperation
    \/ FinishBlock

SpecDelete == Init /\ [][NextDelete]_vars

\* the follower running without a shutdown signal
NextLive ==
    \/ Start({MinBlock}, {FALSE})
    \/ FetchBlock(LiveMenu, MaxChainOps)
    \/ HandleOperation
    \/ FinishBlock

\* FetchBlock returns the block asked for
FetchReturnsBlock == FetchBlock(LiveMenu, MaxChainOps) /\ pc' = "process"

\* the handler of operation number i + 1 of the block returns nil when the
\* database fails none of its calls, or the operation is one ProcessBlock
\* skips: the step HandledAt(i) is enabled
HandlerSucceeds(i) ==
    /\ pc = "process" /\ idx = i /\ idx < Len(Operations(block[1].Transactions))
    /\ LET h == Hivemoji(NextOperation(block[1], idx))
       IN  \/ h = None
           \/ handlePayload(hivemoji_assets, hivemoji_chunk_sets, hivemoji_chunks,
                            h[1].payload, h[1].author, 0).err = ""

\* the step of HandleOperation in which operation number i + 1 of the block
\* is passed without an error
HandledAt(i) == pc = "process" /\ idx = i /\ idx' = i + 1

\* SetLastBlock succeeds
CursorWritten == FinishBlock /\ ret'[1].err = ""

\* ProcessBlock has an operation of the block left: HandleOperation is
\* enabled
OperationLeft == pc = "process" /\ idx < Len(Operations(block[1].Transactions))

\* a step of HandleOperation: the operation is passed or ends ProcessBlock
Handled == OperationLeft /\ (idx' = idx + 1 \/ pc' = "loop")

\* the loop goroutine runs on (weak fairness of each of its steps; that of
\* HandleOperation with its enabling condition written out); the node does
\* not refuse the same block for ever and the database does not fail the
\* same call for ever (strong fairness of the steps in which the call
\* succeeds; that of HandledAt(i) with its enabling condition written out)
SpecLive ==
    /\ Init /\ [][NextLive]_vars
    /\ WF_vars(Start({MinBlock}, {FALSE}))
    /\ WF_vars(FetchBlock(LiveMenu, MaxChainOps))
    /\ ([]<>(~OperationLeft)) \/ ([]<><<Handled>>_vars)
    /\ WF_vars(FinishBlock)
    /\ SF_vars(FetchReturnsBlock)
    /\ \A i \in 0..(MaxChainOps - 1) :
          (<>[](~HandlerSucceeds(i))) \/ ([]<><<HandledAt(i)>>_vars)
    /\ SF_vars(CursorWritten)

-----------------------------------------------------------------------------
(* Store.SaveChunk called by several callers at once.  pgx.TxOptions{} is  *)
(* READ COMMITTED: every statement of a transaction sees the committed     *)
(* rows and the transaction's own writes, and the first statement, the     *)
(* upsert of the chunk set row, waits while another open transaction holds *)
(* that row.                                                               *)



CallerIds == 1..MaxCallers

\* the bytes of chunk number seq
ChunkBytes(seq) == IF seq % 2 = 1 THEN <<65>> ELSE <<66>>

\* the checksum strings a caller may declare: none, that of "A", that of "AB"
Checksums == {"", "559AEAD08264D579", "38164fbd17603d73"}

\* the chunks a caller may submit: chunk seq of MaxCallers, or a whole upload
CallerChunks ==
    {[ID |-> "U1", Author |-> "alice", Name |-> "smile", Version |-> 2,
      Mime |-> "image/webp", Width |-> 96, Height |-> 96, Animated |-> FALSE,
      Loop |-> None, Checksum |-> c, Kind |-> "main", Seq |-> st[1], Total |-> st[2],
      Data |-> ChunkBytes(st[1])] :
        c \in Checksums,
        st \in {<<i, MaxCallers>> : i \in CallerIds} \cup {<<1, 1>>}}

SameRow(a, b) == a.ID = b.ID /\ a.Kind = b.Kind

\* RowFree with a fault: the upsert does not wait for the row
RowAlwaysFree(t, i) == TRUE

\* the chunk set row of caller i is held by no other open transaction
RowFree(t, i) ==
    \A j \in DOMAIN t :
        (j # i /\ SameRow(t[j].chunk, t[i].chunk)) => t[j].pc \in {"upsert", "done"}

\* the chunk set rows caller i's statements see
ViewSets(i) ==
    IF txs[i].set = None THEN hivemoji_chunk_sets
    ELSE (hivemoji_chunk_sets \ SetAt(hivemoji_chunk_sets, txs[i].chunk.ID,
                                      txs[i].chunk.Kind)) \cup {txs[i].set[1]}

\* the chunk rows caller i's statements see
ViewChunks(i) == hivemoji_chunks \cup txs[i].chunks

OwnSet(sets, chunk) == Some(CHOOSE r \in SetAt(sets, chunk.ID, chunk.Kind) : TRUE)

Follower == <<sync_state, chain, pc, current, block, idx, ret, fetch, run, first,
              applied, lastReg, crashes, ctxDone>>

InitCallers ==
    /\ hivemoji_assets = {}
    /\ hivemoji_chunk_sets = {}
    /\ hivemoji_chunks = {}
    /\ sync_state = None
    /\ chain = [n \in Blocks |-> None]
    /\ pc = "down"
    /\ current = 0
    /\ block = None
    /\ idx = 0
    /\ ret = None
    /\ fetch = None
    /\ run = None
    /\ first = None
    /\ applied = <<>>
    /\ lastReg = {}
    /\ crashes = 0
    /\ ctxDone = FALSE
    /\ txs \in [CallerIds -> {[pc |-> "upsert", chunk |-> c, set |-> None, chunks |-> {},
                                  out |-> None] :
                                 c \in CallerChunks}]
    /\ returned = [i \in CallerIds |-> None]
    /\ assembledAt = {}

\* BeginTx and the first statement: the upsert of the chunk set row
TxUpsertChunkSet(i) ==
    /\ txs[i].pc = "upsert"
    /\ RowFree(txs, i)
    /\ txs' = [txs EXCEPT ![i].pc = "insert",
                          ![i].set = OwnSet(UpsertChunkSet(ViewSets(i), txs[i].chunk),
                                            txs[i].chunk)]
    /\ UNCHANGED <<Tables, Follower, returned, assembledAt>>

\* the second statement: the insert of the chunk
TxInsertChunk(i) ==
    /\ txs[i].pc = "insert"
    /\ txs' = [txs EXCEPT ![i].pc = "count",
                          ![i].chunks = InsertChunk(ViewChunks(i), txs[i].chunk)
                                            \ hivemoji_chunks]
    /\ UNCHANGED <<Tables, Follower, returned, assembledAt>>

\* the count: below total SaveChunk goes on to commit and return nil
TxCount(i) ==
    /\ txs[i].pc = "count"
    /\ txs' = [txs EXCEPT ![i].pc =
                  IF BelowTotal(CountChunks(ViewChunks(i), txs[i].chunk.ID,
                                            txs[i].chunk.Kind),
                                txs[i].chunk.Total)
                  THEN "commit" ELSE "assemble"]
    /\ UNCHANGED <<Tables, Follower, returned, assembledAt>>

\* assembleChunks inside the transaction; its error rolls the transaction back
TxAssemble(i) ==
    /\ txs[i].pc = "assemble"
    /\ LET asm == assembleChunks(ViewSets(i), ViewChunks(i),
                                 txs[i].chunk.ID, txs[i].chunk.Kind)
       IN  IF asm.err = ""
           THEN /\ txs' = [txs EXCEPT ![i].pc = "commit",
                                      ![i].set = OwnSet(asm.sets, txs[i].chunk),
                                      ![i].out = asm.set]
                /\ UNCHANGED returned
           ELSE /\ txs' = [txs EXCEPT ![i].pc = "done", ![i].set = None,
                                      ![i].chunks = {}]
                /\ returned' = [returned EXCEPT
                                   ![i] = Some([set |-> None, err |-> asm.err])]
    /\ UNCHANGED <<Tables, Follower, assembledAt>>

\* tx.Commit and SaveChunk's return
TxCommit(i) ==
    /\ txs[i].pc = "commit"
    /\ hivemoji_chunk_sets' = ViewSets(i)
    /\ hivemoji_chunks' = ViewChunks(i)
    /\ txs' = [txs EXCEPT ![i].pc = "done", ![i].set = None, ![i].chunks = {}]
    /\ returned' = [returned EXCEPT ![i] = Some([set |-> txs[i].out, err |-> ""])]
    /\ UNCHANGED <<hivemoji_assets, Follower, assembledAt>>

NextCallers ==
    \E i \in CallerIds :
        \/ TxUpsertChunkSet(i)
        \/ TxInsertChunk(i)
        \/ TxCount(i)
        \/ TxAssemble(i)
        \/ TxCommit(i)

SpecCallers == InitCallers /\ [][NextCallers]_vars

-----------------------------------------------------------------------------
(* The store's methods called one at a time by any caller, in any order.   *)

\* the assembled sets a caller may pass: uploads U1 and U2 of alice and bob
AssembledSets(kind) ==
    {[UploadID |-> u, Kind |-> kind, Name |-> "smile", Author |-> a, Version |-> 2,
      Mime |-> IF kind = "main" THEN "image/webp" ELSE "image/png",
      Width |-> 96, Height |-> 96, Animated |-> FALSE, Loop |-> None,
      Checksum |-> IF d = <<65>> THEN "559AEAD08264D579" ELSE "", Data |-> d] :
        u \in {"U1", "U2"}, a \in {"alice", "bob"}, d \in {<<65>>, <<66>>}}

\* the v1 payloads a caller may pass: with and without a fallback
RegisterV1s ==
    {[Name |-> "smile", Author |-> a, Mime |-> "image/webp", Width |-> 96,
      Height |-> 96, Data |-> <<67>>, Animated |-> FALSE, Loop |-> None,
      FallbackMime |-> f[1], FallbackData |-> f[2]] :
        a \in {"alice", "bob"}, f \in {<<"", <<>> >>, <<"image/gif", <<68>> >>}}

\* a call of Store.UpsertFromChunks(ctx, main, fallback)
CallUpsertFromChunks ==
    /\ pc = "down"
    /\ \E main \in {None} \cup {Some(s) : s \in AssembledSets("main")},
          fallback \in {None} \cup {Some(s) : s \in AssembledSets("fallback")} :
          LET r == UpsertFromChunks(hivemoji_assets, main, fallback)
          IN  /\ hivemoji_assets' = r.assets
              /\ returned' = [call |-> "UpsertFromChunks", main |-> main,
                              fallback |-> fallback, err |-> r.err]
    /\ UNCHANGED <<hivemoji_chunk_sets, hivemoji_chunks, Follower, txs, assembledAt>>

\* a call of Store.UpsertV1(ctx, payload)
CallUpsertV1 ==
    /\ pc = "down"
    /\ \E payload \in RegisterV1s :
          /\ hivemoji_assets' = UpsertV1(hivemoji_assets, payload)
          /\ returned' = [call |-> "UpsertV1", payload |-> payload, err |-> ""]
    /\ UNCHANGED <<hivemoji_chunk_sets, hivemoji_chunks, Follower, txs, assembledAt>>

NextUpsert ==
    \/ CallUpsertFromChunks
    \/ CallUpsertV1

SpecUpsert == Init /\ [][NextUpsert]_vars

\* the two sets of metadata a chunk may carry
ChunkMetadata ==
    {[Author |-> "alice", Name |-> "smile", Version |-> 2, Mime |-> "image/webp",
      Width |-> 96, Height |-> 96, Animated |-> FALSE, Loop |-> None,
      Checksum |-> ""],
     [Author |-> "bob", Name |-> "wink", Version |-> 3, Mime |-> "image/png",
      Width |-> 64, Height |-> 32, Animated |-> TRUE, Loop |-> Some(0),
      Checksum |-> "38164fbd17603d73"]}

\* the highest seq a caller sends: one past the largest total
MaxSeq == MaxTotal + 1

\* the chunk payloads a caller may pass: upload U1, kind main
ChunkPayloads ==
    {[ID |-> "U1", Kind |-> "main", Seq |-> seq, Total |-> total, Data |-> data,
      Author |-> m.Author, Name |-> m.Name, Version |-> m.Version, Mime |-> m.Mime,
      Width |-> m.Width, Height |-> m.Height, Animated |-> m.Animated,
      Loop |-> m.Loop, Checksum |-> m.Checksum] :
        seq \in 1..MaxSeq, total \in 1..MaxTotal, data \in {<<65>>, <<66>>},
        m \in ChunkMetadata}

\* a call of Store.SaveChunk(ctx, chunk); the database may fail it, and the
\* deferred tx.Rollback then leaves the tables as they are
CallSaveChunk ==
    /\ pc = "down"
    /\ \E chunk \in ChunkPayloads, dbFails \in BOOLEAN :
          LET r == IF dbFails
                   THEN [sets |-> hivemoji_chunk_sets, chunks |-> hivemoji_chunks,
                         set |-> None, err |-> "store"]
                   ELSE SaveChunk(hivemoji_chunk_sets, hivemoji_chunks, chunk)
          IN  /\ hivemoji_chunk_sets' = r.sets
              /\ hivemoji_chunks' = r.chunks
              /\ returned' = [call |-> "SaveChunk", chunk |-> chunk, set |-> r.set,
                              err |-> r.err]
              /\ assembledAt' = IF r.set = None THEN assembledAt
                                ELSE assembledAt \cup
                                     {[upload_id |-> chunk.ID, kind |-> chunk.Kind,
                                       total |-> chunk.Total]}
    /\ UNCHANGED <<hivemoji_assets, Follower, txs>>

\* a call of Store.GetChunkSet(ctx, uploadID, kind)
CallGetChunkSet ==
    /\ pc = "down"
    /\ returned' = [call |-> "GetChunkSet",
                    set |-> GetChunkSet(hivemoji_chunk_sets, "U1", "main"), err |-> ""]
    /\ UNCHANGED <<Tables, Follower, txs, assembledAt>>

NextSaveChunk ==
    \/ CallSaveChunk
    \/ CallGetChunkSet

SpecSaveChunk == Init /\ [][NextSaveChunk]_vars

-----------------------------------------------------------------------------
(* The follower's claims.                                                  *)

\* the operations of a block in on-chain order: those of its first
\* transaction before those of its later ones
RECURSIVE OnChainOrder(_)
OnChainOrder(transactions) ==
    IF Len(transactions) = 0 THEN <<>>
    ELSE OnChainOrder(SubSeq(transactions, 1, Len(transactions) - 1))
             \o transactions[Len(transactions)]

IsHivemoji(op) == Hivemoji(op) # None

\* C1: whenever ProcessBlock(N) has returned success, the cursor LastBlock()
\* reads is N.
C1_CursorAfterSuccess ==
    (ret # None /\ ret[1].err = "")
        => LastBlock(sync_state) = [n |-> ret[1].Number, err |-> ""]

\* C1 witness: ProcessBlock returned success for the block numbered MaxBlock
C1_Witness == ret # None /\ ret[1].err = "" /\ ret[1].Number = MaxBlock

\* C2: within a block the hivemoji operations are handled in on-chain order;
\* the cursor is written only by ProcessBlock of the block, after every one of
\* its operations was handled without error; and a handler error makes
\* ProcessBlock return an error with the cursor at its prior value.
C2_OrderThenCursor ==
    [][ /\ pc' = "process" =>
             applied' = [i \in 1..Len(applied') |->
                            [op |-> SelectSeq(OnChainOrder(block'[1].Transactions),
                                              IsHivemoji)[i],
                             err |-> ""]]
        /\ sync_state' # sync_state =>
             /\ pc = "process"
             /\ sync_state' = Some(Sprintf_d(block[1].Number))
             /\ Len(applied) = Len(SelectSeq(OnChainOrder(block[1].Transactions),
                                             IsHivemoji))
             /\ \A i \in 1..Len(applied) : applied[i].err = ""
             /\ ret' = Some([Number |-> block[1].Number, err |-> ""])
        /\ (Len(applied') > Len(applied) /\ applied'[Len(applied')].err # "") =>
             /\ sync_state' = sync_state
             /\ ret' = Some([Number |-> block[1].Number,
                             err |-> applied'[Len(applied')].err])
             /\ pc' = "loop"
      ]_vars

\* C2 witness: a block of two different operations in two transactions was
\* handled and its number written to the cursor
C2_Witness ==
    /\ ret # None /\ ret[1].err = ""
    /\ Len(applied) = 2 /\ applied[1].op # applied[2].op
    /\ Len(chain[ret[1].Number][1]) = 2
    /\ sync_state = Some(Sprintf_d(ret[1].Number))

\* C3: the follower processes the blocks from its resume point on in
\* increasing order without gaps: the blocks ProcessBlock has succeeded on in
\* this run are exactly those from the resume point up to current - 1, and
\* the block being processed is block current.
C3_NoGaps ==
    run # None =>
        /\ run[1].done = {n \in Blocks : run[1].resume <= n /\ n < current}
        /\ current >= run[1].resume
        /\ block # None => block[1].Number = current
        /\ fetch # None =>
             \A n \in Blocks :
                (run[1].resume <= n /\ n < fetch[1].number) => n \in run[1].done

\* C3 witness: a block failed, was retried, and two blocks are done
C3_Witness ==
    /\ run # None /\ Cardinality(run[1].done) = 2
    /\ \E i \in 1..Len(applied) : applied[i].op = DeleteSmile

\* C4: the follower's first block is max(start_block, LastBlock() + 1) when
\* the value LastBlock() returned is > 0 and start_block otherwise; LastBlock()
\* returns the number the cursor row holds (0 without a row, or when the read
\* fails), so a run that starts on cursor N begins at N + 1 unless start_block
\* is higher.
C4_ResumePoint ==
    run # None =>
        LET r == run[1]
        IN  /\ r.resume = IF r.last > 0 THEN Max(r.StartBlock, r.last + 1)
                          ELSE r.StartBlock
            /\ r.done = {} => current = r.resume
            /\ (r.err = "" /\ r.cursor = None) => r.last = 0
            /\ r.err # "" => r.last = 0
            /\ \A n \in Blocks :
                  (r.err = "" /\ r.cursor = Some(Sprintf_d(n)))
                      => /\ r.last = n
                         /\ r.StartBlock <= n + 1 => r.resume = n + 1

\* C4 witness: a restart on a cursor that is ahead of start_block
C4_Witness ==
    /\ run # None /\ run[1].err = ""
    /\ run[1].cursor = Some(Sprintf_d(MinBlock + 1))
    /\ run[1].StartBlock = MinBlock
    /\ current = MinBlock + 2

\* C4 witness of the other branch: start_block is ahead of the cursor
C4_WitnessStartAhead ==
    /\ run # None /\ run[1].last > 0 /\ run[1].StartBlock > run[1].last + 1

-----------------------------------------------------------------------------
(* The store's claims.                                                     *)

\* the account that signed operation number idx + 1 of the block in process
Signer == Hivemoji(NextOperation(block[1], idx))[1].author

\* C5: handling an operation signed by one account never creates, changes or
\* removes an asset row whose author is another account.
C5_NoCrossAuthorMutation ==
    [][ (pc = "process" /\ idx < Len(Operations(block[1].Transactions))
            /\ IsHivemoji(NextOperation(block[1], idx)))
        => {r \in hivemoji_assets' : r.author # Signer}
               = {r \in hivemoji_assets : r.author # Signer}
      ]_vars

\* C6: every asset written from a v2 upload whose stored checksum is not
\* empty holds data whose SHA-256 is that checksum, compared without case.
C6_ChecksumMatchesData ==
    \A r \in hivemoji_assets :
        (r.version = 2 /\ r.checksum # None /\ r.checksum[1] # "")
            => EqualFold(r.checksum[1], Sha256Hex(r.data))

\* one complete application of the operations ops, the database failing none
RECURSIVE ApplyBlock(_, _, _, _)
ApplyBlock(assets, sets, chunks, ops) ==
    IF Len(ops) = 0 THEN Result(assets, sets, chunks, "", None)
    ELSE LET h == Hivemoji(Head(ops))
             r == handlePayload(assets, sets, chunks, h[1].payload, h[1].author, 0)
         IN  IF h = None THEN ApplyBlock(assets, sets, chunks, Tail(ops))
             ELSE IF r.err # "" THEN r
             ELSE ApplyBlock(r.assets, r.sets, r.chunks, Tail(ops))

\* C9: when a pass over a block has handled all its operations, whatever
\* earlier passes over that block had applied, the three tables are what one
\* complete application of the block to the tables before its first pass gives.
C9_ReplayEqualsOnce ==
    (pc = "process" /\ idx = Len(Operations(block[1].Transactions)))
        => LET once == ApplyBlock(first[1].assets, first[1].sets, first[1].chunks,
                                  Operations(block[1].Transactions))
           IN  once.err = "" =>
                   /\ hivemoji_assets = once.assets
                   /\ hivemoji_chunk_sets = once.sets
                   /\ hivemoji_chunks = once.chunks

\* C10: a key whose most recent register (v1 register or v2 main completion)
\* was followed by no delete holds the bytes of that register.
C10_LastRegisterWins ==
    \A r \in lastReg :
        r.data # None =>
            /\ GetAsset(hivemoji_assets, r.author, r.name) # None
            /\ GetAsset(hivemoji_assets, r.author, r.name)[1].data = r.data[1]

-----------------------------------------------------------------------------
(* The claims about concurrent and repeated SaveChunk calls.               *)

AllReturned == \A i \in CallerIds : returned[i] # None

\* the callers whose SaveChunk returned an assembled set
Assemblers == {i \in CallerIds : returned[i] # None /\ returned[i][1].set # None}

\* the callers whose SaveChunk returned an error
Failed == {i \in CallerIds : returned[i] # None /\ returned[i][1].err # ""}

\* the callers submit distinct chunks of one upload that together supply
\* every seq in 1..total
DistinctChunksOfOneSet ==
    /\ \A i \in CallerIds : txs[i].chunk.Total = MaxCallers
    /\ \A i, j \in CallerIds : i # j => txs[i].chunk.Seq # txs[j].chunk.Seq

\* C7: SaveChunk called twice with the same chunk returns an assembled set
\* at most once.
C7_AssembledAtMostOnce ==
    \A i, j \in CallerIds :
        (i # j /\ txs[i].chunk = txs[j].chunk) => ~({i, j} \subseteq Assemblers)

\* C8 as stated: when interleaved SaveChunk calls for distinct chunks that
\* together supply every seq in 1..total have all returned, exactly one of
\* them has returned the assembled set.
C8_AlwaysExactlyOne ==
    (DistinctChunksOfOneSet /\ AllReturned) => Cardinality(Assemblers) = 1

\* C8 amended: of such calls never more than one returns the assembled set;
\* when all have returned, exactly one has returned it unless a call failed,
\* the set row is completed exactly when one has, and the only call that can
\* fail is the one that ran the assembly (its checksum check), so that
\* exactly one call either returns the set or fails.
C8_ExactlyOneAssembles ==
    DistinctChunksOfOneSet =>
        /\ Cardinality(Assemblers) <= 1
        /\ AllReturned =>
              /\ Failed = {} => Cardinality(Assemblers) = 1
              /\ (Cardinality(Assemblers) = 1)
                    <=> (\E r \in hivemoji_chunk_sets : r.completed)
              /\ Cardinality(Failed) + Cardinality(Assemblers) = 1

\* C8 witness: every caller of a set of distinct chunks has returned, exactly
\* one of them with the assembled set, and the row holds the bytes in seq order
C8_Witness ==
    /\ DistinctChunksOfOneSet
    /\ AllReturned
    /\ Cardinality(Assemblers) = 1
    /\ \E r \in hivemoji_chunk_sets : r.completed /\ r.data = Some(<<65, 66>>)

-----------------------------------------------------------------------------
(* The claims about v1 registers and deletes.                              *)

\* the payload of operation number idx + 1 of the block in process
Message == Hivemoji(NextOperation(block[1], idx))[1].payload

\* this step handles a hivemoji operation of the given version and op
\* without error
Handles(version, op) ==
    /\ pc = "process" /\ idx < Len(Operations(block[1].Transactions))
    /\ IsHivemoji(NextOperation(block[1], idx))
    /\ Message.Version = version /\ Message.Op = op
    /\ Len(applied') = Len(applied) + 1
    /\ applied'[Len(applied')].err = ""

\* C11: after a v1 delete of name n signed by a non-blank author a is
\* processed, GetAsset(a, n) is nil, every other asset row is as it was (those
\* of other authors named n among them), and the same delete again changes
\* nothing.
C11_DeleteOwnOnly ==
    [][ (Handles(1, "delete") /\ ~IsBlank(Signer))
        => /\ GetAsset(hivemoji_assets', Signer, Message.Name) = None
           /\ hivemoji_assets'
                 = hivemoji_assets \ AssetAt(hivemoji_assets, Signer, Message.Name)
           /\ \A r \in hivemoji_assets :
                 (r.name = Message.Name /\ r.author # Signer) => r \in hivemoji_assets'
           /\ DeleteEmoji(hivemoji_assets', Signer, Message.Name)
                 = [assets |-> hivemoji_assets', err |-> ""]
      ]_vars

\* C11 witness: alice's delete of smile was processed in a block that began
\* with alice's and bob's smile stored, and bob's is what is left
C11_Witness ==
    /\ pc = "process" /\ first # None
    /\ {[author |-> r.author, name |-> r.name] : r \in first[1].assets}
          = {[author |-> "alice", name |-> "smile"], [author |-> "bob", name |-> "smile"]}
    /\ applied = <<[op |-> DeleteSmile, err |-> ""]>>
    /\ {[author |-> r.author, name |-> r.name] : r \in hivemoji_assets}
          = {[author |-> "bob", name |-> "smile"]}

-----------------------------------------------------------------------------
(* The claims about chunked v2 uploads.                                    *)

\* the seq values stored for (upload_id, kind)
SeqsStored(chunks, uploadID, kind) == {r.seq : r \in ChunksOf(chunks, uploadID, kind)}

\* the payloads of chunks 1..t of rows, one after the other in that order
RECURSIVE InSeqOrder(_, _)
InSeqOrder(rows, t) ==
    IF t = 0 THEN <<>>
    ELSE InSeqOrder(rows, t - 1) \o (CHOOSE r \in rows : r.seq = t).data

\* the set (upload_id, kind) is completed
Completed(sets, uploadID, kind) == \E r \in SetAt(sets, uploadID, kind) : r.completed

\* this step handles without error the chunk of a main set that was the last
\* one missing of the 1..total it declares
LastMissingMainChunk ==
    /\ Handles(2, "chunk")
    /\ DefaultKind(Message.Kind) = "main"
    /\ Message.Seq \notin SeqsStored(hivemoji_chunks, Message.ID, "main")
    /\ SeqsStored(hivemoji_chunks', Message.ID, "main") = 1..Message.Total

\* C12: once the last missing chunk of a main set of total T is processed, in
\* whatever order and blocks the chunks came, the asset holds the chunk
\* payloads in ascending seq order, version 2 and the upload's id, and no
\* fallback mime or data when no fallback set is completed.
C12_AssembledInSeqOrder ==
    [][ LastMissingMainChunk
        => LET a == GetAsset(hivemoji_assets', Signer, Message.Name)
           IN  /\ a # None
               /\ a[1].data = InSeqOrder(ChunksOf(hivemoji_chunks', Message.ID, "main"),
                                         Message.Total)
               /\ a[1].version = 2
               /\ a[1].upload_id = Some(Message.ID)
               /\ ~Completed(hivemoji_chunk_sets', Message.ID, "fallback")
                     => (a[1].fallback_mime = None /\ a[1].fallback_data = None)
      ]_vars

\* C12 witness: chunk 2 came in an earlier block than chunk 1, no fallback
\* chunk came, and the asset holds "AB"
C12_Witness ==
    /\ \E m, n \in Blocks : /\ m < n
                            /\ chain[m] = Some(<<<<GrinMain2>>>>)
                            /\ chain[n] = Some(<<<<GrinMain1>>>>)
    /\ hivemoji_chunks = {r \in hivemoji_chunks : r.kind = "main" /\ r.seq \in {1, 2}}
    /\ \E r \in hivemoji_assets :
          /\ r.author = "alice" /\ r.name = "grin" /\ r.data = <<65, 66>>
          /\ r.version = 2 /\ r.upload_id = Some("U2") /\ r.fallback_data = None

\* C13: a fallback chunk handled while the main set of its upload is not
\* completed, the one that completes the fallback set among them, writes and
\* changes no asset row; a chunk writes an asset row only with the main set of
\* its upload completed.
C13_FallbackWaitsForMain ==
    [][ Handles(2, "chunk")
        => /\ (DefaultKind(Message.Kind) = "fallback"
                  /\ ~Completed(hivemoji_chunk_sets', Message.ID, "main"))
                 => hivemoji_assets' = hivemoji_assets
           /\ hivemoji_assets' # hivemoji_assets
                 => Completed(hivemoji_chunk_sets', Message.ID, "main")
      ]_vars

\* C13 witness: the fallback set is completed, one chunk of the main set is
\* stored, and there is no asset
C13_Witness ==
    /\ Completed(hivemoji_chunk_sets, "U2", "fallback")
    /\ SeqsStored(hivemoji_chunks, "U2", "main") = {1}
    /\ ~Completed(hivemoji_chunk_sets, "U2", "main")
    /\ Len(applied) > 0 /\ applied[Len(applied)] = [op |-> GrinFallback, err |-> ""]
    /\ hivemoji_assets = {}

\* the main and the fallback set of the upload are completed
BothCompleted(sets, uploadID) ==
    Completed(sets, uploadID, "main") /\ Completed(sets, uploadID, "fallback")

\* the asset of the upload holds the main set's bytes as data and the fallback
\* set's bytes and mime as fallback
HoldsBoth(assets, sets, uploadID) ==
    \A m \in SetAt(sets, uploadID, "main"), f \in SetAt(sets, uploadID, "fallback") :
        LET a == GetAsset(assets, m.author, m.name)
        IN  /\ a # None
            /\ Some(a[1].data) = m.data
            /\ a[1].fallback_data = f.data
            /\ a[1].fallback_mime = Some(f.mime)

\* C14: when a handled chunk completes the second of the main and the
\* fallback set of its upload, whichever completed first, the asset holds the
\* main set's bytes as data and the fallback set's bytes and mime as fallback;
\* and so it does whenever ProcessBlock has handled every operation of a
\* block with both sets completed.
C14_BothSetsInAsset ==
    [][ /\ (Handles(2, "chunk")
               /\ BothCompleted(hivemoji_chunk_sets', Message.ID)
               /\ ~BothCompleted(hivemoji_chunk_sets, Message.ID))
           => HoldsBoth(hivemoji_assets', hivemoji_chunk_sets', Message.ID)
        /\ (pc' = "process" /\ idx' = Len(Operations(block'[1].Transactions))
               /\ BothCompleted(hivemoji_chunk_sets', "U2"))
           => HoldsBoth(hivemoji_assets', hivemoji_chunk_sets', "U2")
      ]_vars

\* C14 witness: the fallback set came in the first block, the main set's
\* chunks later, and the asset holds "AB" with the fallback "B" as image/png
C14_Witness ==
    /\ chain[MinBlock] = Some(<<<<GrinFallback>>>>)
    /\ \E r \in hivemoji_assets :
          /\ r.author = "alice" /\ r.name = "grin" /\ r.data = <<65, 66>>
          /\ r.fallback_data = Some(<<66>>) /\ r.fallback_mime = Some("image/png")

\* C14 witness of the other order: the main set completed in the first block
C14_WitnessMainFirst ==
    /\ chain[MinBlock] = Some(<<<<GrinMain1, GrinMain2>>>>)
    /\ \E r \in hivemoji_assets :
          /\ r.author = "alice" /\ r.name = "grin" /\ r.data = <<65, 66>>
          /\ r.fallback_data = Some(<<66>>) /\ r.fallback_mime = Some("image/png")

\* C15: when the chunk that takes a set to its total declares a checksum that
\* is not that of the concatenation, SaveChunk fails with the checksum
\* mismatch and nothing of its transaction is stored: the three tables are as
\* before (no chunk, no metadata, completed still false, no asset),
\* ProcessBlock returns the error, the cursor and current stay, and the next
\* block fetched is the same block.
C15_ChecksumMismatchRollsBack ==
    [][ /\ (pc = "process" /\ Len(applied') = Len(applied) + 1
               /\ applied'[Len(applied')].err = "checksum mismatch")
           => /\ Message.Version = 2
              /\ hivemoji_assets' = hivemoji_assets
              /\ hivemoji_chunk_sets' = hivemoji_chunk_sets
              /\ hivemoji_chunks' = hivemoji_chunks
              /\ sync_state' = sync_state
              /\ current' = current
              /\ pc' = "loop"
              /\ ret' = Some([Number |-> block[1].Number, err |-> "checksum mismatch"])
        /\ (ret # None /\ ret[1].err # "" /\ fetch' # fetch)
           => fetch'[1].number = ret[1].Number
      ]_vars

\* C15 witness: the block whose last chunk failed the checksum is in process
\* again, with chunk 1 alone stored, the set not completed and no asset
C15_Witness ==
    /\ ret # None /\ ret[1].err = "checksum mismatch"
    /\ pc = "process" /\ block[1].Number = ret[1].Number
    /\ SeqsStored(hivemoji_chunks, "U2", "main") = {1}
    /\ ~Completed(hivemoji_chunk_sets, "U2", "main")
    /\ hivemoji_assets = {}
    /\ LastBlock(sync_state).n < ret[1].Number

\* C16: a set that a handled chunk assembles (its row becomes completed, or
\* its data changes) has exactly the chunks 1..total stored; every chunk the
\* node serves has a seq within 1..total of the total it declares.
C16_AssembledHasAllSeqs ==
    [][ Handles(2, "chunk")
        => \A r \in SetAt(hivemoji_chunk_sets', Message.ID, DefaultKind(Message.Kind)) :
              (r.completed /\ r \notin {[o EXCEPT !.total = r.total] :
                                           o \in hivemoji_chunk_sets})
                 => SeqsStored(hivemoji_chunks', r.upload_id, r.kind) = 1..r.total
      ]_vars

\* the lengths of the chunks stored in rows, added up
RECURSIVE SumOfLengths(_)
SumOfLengths(rows) ==
    IF rows = {} THEN 0
    ELSE LET r == CHOOSE x \in rows : TRUE
         IN  Len(r.data) + SumOfLengths(rows \ {r})

\* C17: every chunk set has total > 0, and is completed exactly when its data
\* is populated with as many bytes as the chunks stored for it hold together.
C17_CompletedIffData ==
    \A r \in hivemoji_chunk_sets :
        /\ r.total > 0
        /\ r.completed
              <=> (r.data # None
                      /\ Len(r.data[1])
                            = SumOfLengths(ChunksOf(hivemoji_chunks, r.upload_id, r.kind)))

-----------------------------------------------------------------------------
(* The claims about the rows of hivemoji_assets.                           *)

\* C18: every stored asset's mime is an accepted mime in normalized form
\* (what NormalizeEmojiMime returns for it is the value itself), so that a
\* register or completed upload carrying another mime creates no asset.
C18_MimeAccepted ==
    \A r \in hivemoji_assets :
        NormalizeEmojiMime(r.mime) = [mime |-> r.mime, ok |-> TRUE]

\* C19: every stored asset has a non-empty author and a non-empty name, and
\* there is at most one asset per (author, name).
C19_KeyNonEmptyAndUnique ==
    \A r \in hivemoji_assets :
        /\ r.author # ""
        /\ r.name # ""
        /\ AssetAt(hivemoji_assets, r.author, r.name) = {r}

\* C20: after a v1 register is handled, whatever was stored under its
\* (author, name) before, the asset there has version 1, no upload_id and no
\* checksum, and null fallback mime and data when the payload has no fallback.
C20_UpsertV1Clears ==
    [][ Handles(1, "register")
        => \E r \in hivemoji_assets' :
              /\ AssetAt(hivemoji_assets', Signer, Message.Name) = {r}
              /\ r.version = 1
              /\ r.upload_id = None
              /\ r.checksum = None
              /\ (Message.Fallback = None
                     => r.fallback_mime = None /\ r.fallback_data = None)
      ]_vars

-----------------------------------------------------------------------------
(* The claims about fetch failures, rejected and skipped operations.       *)

\* the last FetchBlock call failed or found the block not yet produced
FetchFailed(f) == f # None /\ f[1].result \in {"error", "nil"}

C21_WitnessNil ==
    /\ fetch # None /\ fetch[1].result = "nil"
    /\ ret # None /\ ret[1].err = "" /\ current = ret[1].Number + 1

\* this step has handlePayload called on a hivemoji operation
Dispatches ==
    /\ pc = "process" /\ idx < Len(Operations(block[1].Transactions))
    /\ IsHivemoji(NextOperation(block[1], idx))
    /\ Len(applied') = Len(applied) + 1

\* C22: a hivemoji operation whose payload does not decode into the envelope
\* is skipped: ProcessBlock goes on to the next operation of the block with
\* the tables as they are.
C22_BadEnvelopeSkipped ==
    [][ (Dispatches /\ ~Message.Decodes)
        => /\ pc' = "process"
           /\ idx' = idx + 1
           /\ block' = block
           /\ hivemoji_assets' = hivemoji_assets
      ]_vars

\* the payload is one of a known schema rejected: a version other than 1 and
\* 2, a v1 op other than register and delete, a v2 op other than chunk,
\* register and empty
Rejected(m) ==
    /\ m.Decodes
    /\ \/ m.Version \notin {1, 2}
       \/ m.Version = 1 /\ m.Op \notin {"register", "delete"}
       \/ m.Version = 2 /\ m.Op \notin {"chunk", "register", ""}

\* the block numbered n holds a hivemoji operation of a rejected schema
HoldsRejected(c, n) ==
    /\ c[n] # None
    /\ \E i \in 1..Len(Operations(c[n][1])) :
          LET h == Hivemoji(Operations(c[n][1])[i])
          IN  h # None /\ Rejected(h[1].payload)

\* C23: handling an operation of a rejected schema makes ProcessBlock return
\* an error with the tables, the cursor and current as they are; and the
\* follower never fetches a block later than one that holds such an
\* operation, nor writes that block's number to the cursor.
C23_RejectedStallsBlock ==
    [][ /\ (Dispatches /\ Rejected(Message))
           => /\ ret' # None /\ ret'[1].Number = block[1].Number
              /\ ret'[1].err \in {"unsupported version", "unknown v1 op",
                                  "unsupported v2 op"}
              /\ pc' = "loop"
              /\ sync_state' = sync_state
              /\ current' = current
              /\ hivemoji_assets' = hivemoji_assets
              /\ hivemoji_chunk_sets' = hivemoji_chunk_sets
              /\ hivemoji_chunks' = hivemoji_chunks
        /\ \A n \in Blocks :
              HoldsRejected(chain', n)
                 => /\ current' <= n
                    /\ fetch' # None => fetch'[1].number <= n
                    /\ LastBlock(sync_state').n < n
      ]_vars

\* C23 witness: the block after a processed one holds a version 3 operation
\* behind a register, was handled twice up to the error, and the follower
\* is still on it
C23_Witness ==
    /\ ret # None /\ ret[1].err = "unsupported version"
    /\ ret[1].Number = MinBlock + 1 /\ current = MinBlock + 1
    /\ pc = "process" /\ block[1].Number = MinBlock + 1
    /\ applied = <<[op |-> RegisterSmile, err |-> ""]>>
    /\ LastBlock(sync_state).n = MinBlock

-----------------------------------------------------------------------------
(* The claim about the shutdown signal.                                    *)

\* C24 as stated: cancellation is checked before each operation, so that
\* once ctx is cancelled a running ProcessBlock returns without handlePayload
\* being called on a further operation.
C24_NoOperationAfterCancel ==
    [][ (ctxDone /\ pc = "process") => (applied' = applied /\ pc' = "loop") ]_vars

\* C24 amended: once ctx is cancelled no step changes a table, writes the cursor,
\* moves current or fetches a block; ProcessBlock, if one is running, ends
\* with an error and never with success; and from the loop the only step
\* left is ingestLoop's return.
C24_CancelledStops ==
    [][ ctxDone
        => /\ hivemoji_assets' = hivemoji_assets
           /\ hivemoji_chunk_sets' = hivemoji_chunk_sets
           /\ hivemoji_chunks' = hivemoji_chunks
           /\ sync_state' = sync_state
           /\ current' = current
           /\ fetch' = fetch
           /\ chain' = chain
           /\ ret' # ret => (ret' # None /\ ret'[1].err # "")
           /\ pc = "loop" => pc' = "stopped"
           /\ pc = "process" => pc' \in {"process", "loop"}
           /\ pc = "stopped" => pc' = "stopped"
      ]_vars

\* C24 witness: the signal came between the two operations of the first
\* block: the register was applied, the delete failed on the cancelled
\* context, no cursor was written and ingestLoop has returned
C24_Witness ==
    /\ ctxDone /\ pc = "stopped"
    /\ applied = <<[op |-> RegisterSmile, err |-> ""],
                   [op |-> DeleteSmile, err |-> "context canceled"]>>
    /\ GetAsset(hivemoji_assets, "alice", "smile") # None
    /\ sync_state = None
    /\ ret = Some([Number |-> MinBlock, err |-> "context canceled"])

\* C24 witness of a block without store calls: SetLastBlock failed on the
\* cancelled context after a manifest-only register
C24_WitnessNoStoreCall ==
    /\ ctxDone /\ pc = "stopped"
    /\ applied = <<[op |-> ManifestOnly, err |-> ""]>>
    /\ sync_state = None
    /\ ret = Some([Number |-> MinBlock, err |-> "context canceled"])

-----------------------------------------------------------------------------
(* The claims about the fields of a register.                              *)

\* the error handlePayload returned in this step
HandlerError == applied'[Len(applied')].err

\* C25: a v1 register whose loop field is absent, null or false is stored
\* with loop unset, one with true with loop 0, one with the integer 7 with
\* loop 7, and one with any other JSON value fails with the loop error and
\* stores nothing.
C25_LoopDecoding ==
    [][ (Dispatches /\ Message.Version = 1 /\ Message.Op = "register")
        => LET a == GetAsset(hivemoji_assets', Signer, Message.Name)
               stored(loop) == HandlerError = "" => (a # None /\ a[1].loop = loop)
           IN  CASE Message.Loop \in {"", "null", "false"} ->
                      HandlerError \in {"", "store"} /\ stored(None)
                 [] Message.Loop = "true" ->
                      HandlerError \in {"", "store"} /\ stored(Some(0))
                 [] Message.Loop = "7" ->
                      HandlerError \in {"", "store"} /\ stored(Some(7))
                 [] OTHER ->
                      HandlerError = "loop" /\ hivemoji_assets' = hivemoji_assets
      ]_vars

\* C25 witness: a register with loop true left loop 0, and a register with
\* a string as loop in the next block failed
C25_Witness ==
    /\ chain[MinBlock] = Some(<<<<LoopTrue>>>>)
    /\ ret # None /\ ret[1].err = "loop" /\ ret[1].Number = MinBlock + 1
    /\ \E r \in hivemoji_assets : r.name = "smile" /\ r.loop = Some(0)

\* C25 witness of false: the register with loop false replaced loop 7 by unset
C25_WitnessFalse ==
    /\ chain[MinBlock] = Some(<<<<LoopSeven>>, <<LoopFalse>>>>)
    /\ ret # None /\ ret[1].err = "" /\ ret[1].Number = MinBlock
    /\ \E r \in hivemoji_assets : r.name = "smile" /\ r.loop = None

\* C26: the author of a handled v1 register is the first posting account when
\* there is one and it is not empty, otherwise the first active account when
\* there is one, otherwise the empty string; the register is stored under
\* exactly that author and touches the rows of no other.
C26_AuthorResolution ==
    [][ Handles(1, "register")
        => LET op      == NextOperation(block[1], idx)
               posting == op.RequiredPostingAuths
               active  == op.RequiredAuths
               author  == IF Len(posting) > 0 /\ posting[1] # "" THEN posting[1]
                          ELSE IF Len(active) > 0 THEN active[1]
                          ELSE ""
           IN  /\ Signer = author
               /\ GetAsset(hivemoji_assets', author, Message.Name) # None
               /\ {r \in hivemoji_assets' : r.author # author}
                     = {r \in hivemoji_assets : r.author # author}
      ]_vars

\* C26 witness: a register with an empty first posting account and bob as
\* active account, then an unsigned one: a row of bob and a row of nobody
C26_Witness ==
    /\ pc = "process"
    /\ applied = <<[op |-> BlankPosting, err |-> ""], [op |-> Unsigned, err |-> ""]>>
    /\ {r.author : r \in hivemoji_assets} = {"bob", ""}

-----------------------------------------------------------------------------
(* The claim about the operations ProcessBlock skips.                      *)

\* the operation is not a custom_json, does not decode into CustomJSONOp, has
\* an id other than hivemoji, or has no json field
Skipped(op) ==
    \/ op.Type # "custom_json"
    \/ ~op.Decodes
    \/ op.ID # "hivemoji"
    \/ op.JSON = None

\* C27: ProcessBlock passes over such an operation: no table and no cursor
\* changes, no handler is called, and ProcessBlock is at the next operation
\* of the same block, so that what follows is applied and the block's number
\* is written when ProcessBlock has handled every operation.
C27_SkippedOperations ==
    [][ /\ (pc = "process" /\ idx < Len(Operations(block[1].Transactions))
               /\ Skipped(NextOperation(block[1], idx)))
           => /\ hivemoji_assets' = hivemoji_assets
              /\ hivemoji_chunk_sets' = hivemoji_chunk_sets
              /\ hivemoji_chunks' = hivemoji_chunks
              /\ sync_state' = sync_state
              /\ applied' = applied
              /\ ret' = ret
              /\ pc' = "process" /\ block' = block /\ idx' = idx + 1
        /\ (pc = "process" /\ idx = Len(Operations(block[1].Transactions))
               /\ sync_state' # sync_state)
           => /\ sync_state' = Some(Sprintf_d(block[1].Number))
              /\ Len(applied) = Len(SelectSeq(Operations(block[1].Transactions),
                                              LAMBDA o : ~Skipped(o)))
      ]_vars

\* C27 witness: the first block held an operation without json field and
\* then a register: the register is stored and the cursor is on the block
C27_Witness ==
    /\ chain[MinBlock] = Some(<<<<NoJson, RegisterSmile>>>>)
    /\ ret = Some([Number |-> MinBlock, err |-> ""])
    /\ applied = <<[op |-> RegisterSmile, err |-> ""]>>
    /\ GetAsset(hivemoji_assets, "alice", "smile") # None
    /\ LastBlock(sync_state).n = MinBlock

-----------------------------------------------------------------------------
(* The claims about handleV2's tests before SaveChunk.                     *)

\* this step leaves the three tables as they are
TablesUnchanged ==
    /\ hivemoji_assets' = hivemoji_assets
    /\ hivemoji_chunk_sets' = hivemoji_chunk_sets
    /\ hivemoji_chunks' = hivemoji_chunks

\* the store calls the handler of the operation at hand would make
CallsOfHandler ==
    StoreCalls(hivemoji_assets, hivemoji_chunk_sets, hivemoji_chunks, Message, Signer)

\* the payload is a v2 operation that carries a chunk: op chunk or empty, or
\* a register with data
CarriesChunk(m) ==
    /\ m.Decodes /\ m.Version = 2
    /\ m.Op \in {"chunk", ""} \/ (m.Op = "register" /\ m.Data # "")

\* C28: a v2 register with empty data returns success without a store call
\* and leaves the tables as they are, whatever its seq and total, and
\* ProcessBlock goes on in the block.
C28_ManifestOnly ==
    [][ (Dispatches /\ Message.Decodes /\ Message.Version = 2
            /\ Message.Op = "register" /\ Message.Data = "")
        => /\ HandlerError = ""
           /\ CallsOfHandler = 0
           /\ TablesUnchanged
           /\ pc' = "process" /\ idx' = idx + 1
      ]_vars

\* C28 witness: a manifest-only register with seq 0 and total 0 was handled
\* and the block's number written
C28_Witness ==
    /\ ManifestOnly.JSON[1].Total <= 0 /\ ManifestOnly.JSON[1].Seq <= 0
    /\ applied = <<[op |-> ManifestOnly, err |-> ""]>>
    /\ ret = Some([Number |-> MinBlock, err |-> ""])
    /\ hivemoji_chunk_sets = {} /\ hivemoji_chunks = {} /\ hivemoji_assets = {}

\* C29 as stated: any v2 chunk with seq <= 0 is ignored: the handler returns
\* success without a store call, and ProcessBlock goes on in the block.
C29_AnySentinelIgnored ==
    [][ (Dispatches /\ CarriesChunk(Message) /\ Message.Seq <= 0)
        => /\ HandlerError = ""
           /\ CallsOfHandler = 0
           /\ TablesUnchanged
           /\ pc' = "process" /\ idx' = idx + 1
      ]_vars

\* C29 amended: a v2 chunk with seq <= 0 and total > 0 is ignored in that
\* way; one with total <= 0 fails with the total error, whatever its seq,
\* without a store call, and ProcessBlock returns the error.
C29_SentinelWithTotalIgnored ==
    [][ (Dispatches /\ CarriesChunk(Message) /\ Message.Seq <= 0)
        => /\ CallsOfHandler = 0
           /\ TablesUnchanged
           /\ Message.Total > 0
                 => (HandlerError = "" /\ pc' = "process" /\ idx' = idx + 1)
           /\ Message.Total <= 0
                 => (HandlerError = "total must be > 0" /\ pc' = "loop"
                        /\ sync_state' = sync_state /\ current' = current)
      ]_vars

\* C29 witness: a block of a sentinel chunk (seq 0 of total 1) was handled
\* and its number written with nothing stored, and the next block, a chunk
\* with seq 0 and total 0, returned the total error
C29_Witness ==
    /\ chain[MinBlock] = Some(<<<<Sentinel>>>>)
    /\ LastBlock(sync_state).n = MinBlock
    /\ ret = Some([Number |-> MinBlock + 1, err |-> "total must be > 0"])
    /\ hivemoji_chunk_sets = {} /\ hivemoji_chunks = {} /\ hivemoji_assets = {}

\* C30: a v2 chunk whose kind is neither main, fallback nor empty is
\* rejected: the handler returns the unknown kind error and stores nothing.
C30_UnknownKindRejected ==
    [][ (Dispatches /\ CarriesChunk(Message) /\ Message.Seq > 0 /\ Message.Total > 0
            /\ Message.Kind \notin {"main", "fallback", ""})
        => /\ HandlerError \in {"unknown chunk kind", "store"}
           /\ TablesUnchanged
      ]_vars

-----------------------------------------------------------------------------
(* The claims about the store's methods, called by the follower.           *)

\* C31: a v1 delete whose signing account is blank (empty or of spaces only)
\* makes DeleteEmoji return its error without deleting a row: ProcessBlock
\* fails, the tables, the cursor and current stay as they are, and the
\* follower fetches the same block again.
C31_BlankAuthorDelete ==
    [][ (Dispatches /\ Message.Decodes /\ Message.Version = 1
           /\ Message.Op = "delete" /\ IsBlank(Signer))
        => /\ HandlerError = "author is required for delete"
           /\ TablesUnchanged
           /\ ret' # None /\ ret'[1].Number = block[1].Number
           /\ ret'[1].err = "author is required for delete"
           /\ pc' = "loop"
           /\ sync_state' = sync_state
           /\ current' = current /\ current' = block[1].Number
      ]_vars

\* C31 witness: a delete signed by one space failed on a table that holds
\* the blank account's own asset, and the block is fetched again
C31_Witness ==
    /\ ret # None /\ ret[1].err = "author is required for delete"
    /\ \E r \in hivemoji_assets : r.author = " " /\ r.name = "smile"
    /\ pc = "process" /\ block[1].Number = ret[1].Number
    /\ \E i \in 1..Len(Operations(block[1].Transactions)) :
          Operations(block[1].Transactions)[i] = DeleteBlank

\* C31 witness of the other case: the delete no account signed
C31_WitnessUnsigned ==
    /\ ret # None /\ ret[1].err = "author is required for delete"
    /\ pc = "loop" /\ current = ret[1].Number
    /\ chain[current] # None
    /\ \E i \in 1..Len(Operations(chain[current][1])) :
          Operations(chain[current][1])[i] = DeleteUnsigned

-----------------------------------------------------------------------------
(* The claims about the store's methods called directly.                   *)

\* this step is a call of the store method named, whose arguments and
\* result are in returned'
Calls(method) ==
    /\ pc = "down" /\ pc' = "down"
    /\ returned' # <<>> /\ returned'.call = method
    /\ <<Tables, returned>>' # <<Tables, returned>>

\* C32: UpsertFromChunks without a main set returns an error and writes
\* nothing; with one it leaves exactly one row at (main.author, main.name),
\* holding main's version, upload id, checksum and data, the fallback's mime
\* and data when a fallback is given and NULL for both when none is, whatever
\* the row held before, and leaves every other row as it is.
C32_UpsertFromChunks ==
    [][ Calls("UpsertFromChunks")
        => LET main == returned'.main
               fallback == returned'.fallback
           IN  IF main = None
               THEN returned'.err # "" /\ TablesUnchanged
               ELSE LET m == main[1]
                        at == AssetAt(hivemoji_assets', m.Author, m.Name)
                    IN  /\ returned'.err = ""
                        /\ Cardinality(at) = 1
                        /\ \A r \in at :
                              /\ r.version = m.Version
                              /\ r.upload_id = Some(m.UploadID)
                              /\ r.checksum = Some(m.Checksum)
                              /\ r.data = m.Data
                              /\ r.fallback_mime =
                                    IF fallback = None THEN None
                                    ELSE Some(fallback[1].Mime)
                              /\ r.fallback_data =
                                    IF fallback = None THEN None
                                    ELSE Some(fallback[1].Data)
                        /\ hivemoji_assets' \ at =
                              hivemoji_assets \ AssetAt(hivemoji_assets, m.Author, m.Name)
      ]_vars

\* C32 witness: a call without a fallback has replaced a row that had one
C32_Witness ==
    /\ returned # <<>> /\ returned.call = "UpsertFromChunks"
    /\ returned.main # None /\ returned.fallback = None
    /\ \E r \in hivemoji_assets :
          /\ r.author = "alice" /\ r.upload_id = Some("U2")
          /\ r.fallback_mime = None /\ r.fallback_data = None
    /\ \E r \in hivemoji_assets : r.author = "bob" /\ r.fallback_data = Some(<<68>>)

\* C32 witness of the other case: a call without a main set on a table
\* that holds rows
C32_WitnessNoMain ==
    /\ returned # <<>> /\ returned.call = "UpsertFromChunks"
    /\ returned.main = None /\ returned.err = "main set is required"
    /\ Cardinality(hivemoji_assets) = 2

\* the arguments and the results of the SaveChunk call of this step
Arrived == returned'.chunk
OldSet == SetAt(hivemoji_chunk_sets, Arrived.ID, Arrived.Kind)
NewSet == SetAt(hivemoji_chunk_sets', Arrived.ID, Arrived.Kind)

\* C33: a SaveChunk that commits leaves one chunk set row at (upload_id,
\* kind) whose name, author, version, mime, width, height, animated, loop,
\* checksum and total are the arriving chunk's; when the call does not
\* assemble the set, completed and data are what the row held before (false
\* and NULL for a new row), and when it does they are true and the bytes
\* returned.
C33_MetadataOverwritten ==
    [][ (Calls("SaveChunk") /\ returned'.err = "")
        => /\ Cardinality(NewSet) = 1
           /\ \A n \in NewSet :
                 /\ n.name = Arrived.Name /\ n.author = Arrived.Author
                 /\ n.version = Arrived.Version /\ n.mime = Arrived.Mime
                 /\ n.width = Arrived.Width /\ n.height = Arrived.Height
                 /\ n.animated = Arrived.Animated /\ n.loop = Arrived.Loop
                 /\ n.checksum = Arrived.Checksum /\ n.total = Arrived.Total
                 /\ IF returned'.set # None
                    THEN n.completed /\ n.data = Some(returned'.set[1].Data)
                    ELSE IF OldSet = {} THEN ~n.completed /\ n.data = None
                    ELSE \A o \in OldSet :
                            n.completed = o.completed /\ n.data = o.data
      ]_vars

\* C33 witness: a chunk carrying bob's metadata and total 2 was committed,
\* without assembling, on the set alice's single chunk had completed
C33_Witness ==
    /\ returned # <<>> /\ returned.call = "SaveChunk"
    /\ returned.err = "" /\ returned.set = None
    /\ returned.chunk.Author = "bob" /\ returned.chunk.Total = 2
    /\ \E r \in hivemoji_chunk_sets :
          /\ r.completed /\ r.data = Some(<<65>>)
          /\ r.author = "bob" /\ r.name = "wink" /\ r.total = 2
          /\ r.checksum = "38164fbd17603d73"
    /\ [upload_id |-> "U1", kind |-> "main", total |-> 1] \in assembledAt

\* the stored chunk rows with the key of the arriving chunk
StoredAtKey ==
    {r \in ChunksOf(hivemoji_chunks, Arrived.ID, Arrived.Kind) : r.seq = Arrived.Seq}

\* C34: no two chunk rows share (upload_id, kind, seq), and a SaveChunk whose
\* key is already stored leaves the chunk table as it is, whatever bytes and
\* total it carries: the stored bytes and the set's chunk count do not change.
C34_FirstChunkWins ==
    [][ Calls("SaveChunk")
        => /\ \A a, b \in hivemoji_chunks' :
                 (a.upload_id = b.upload_id /\ a.kind = b.kind /\ a.seq = b.seq)
                    => a = b
           /\ StoredAtKey # {}
                 => /\ hivemoji_chunks' = hivemoji_chunks
                    /\ CountChunks(hivemoji_chunks', Arrived.ID, Arrived.Kind) =
                          CountChunks(hivemoji_chunks, Arrived.ID, Arrived.Kind)
      ]_vars

\* C34 witness: a call carrying 'B' for seq 1 committed while seq 1 holds 'A'
C34_Witness ==
    /\ returned # <<>> /\ returned.call = "SaveChunk" /\ returned.err = ""
    /\ returned.chunk.Seq = 1 /\ returned.chunk.Data = <<66>>
    /\ \E r \in hivemoji_chunks : r.seq = 1 /\ r.data = <<65>>
    /\ Cardinality(hivemoji_chunks) = 2

\* the set of the arriving chunk was assembled by an earlier SaveChunk call
\* at the total the chunk declares
AssembledAtTotal ==
    [upload_id |-> Arrived.ID, kind |-> Arrived.Kind, total |-> Arrived.Total]
        \in assembledAt

\* C38: once a SaveChunk call has assembled the set (upload_id, kind) at
\* total T, a SaveChunk for that set declaring total T with a seq that is
\* not stored returns an error, chunk count mismatch unless the database
\* failed the call, and leaves the three tables as they are.
C38_LateChunkRejected ==
    [][ (Calls("SaveChunk") /\ AssembledAtTotal /\ StoredAtKey = {})
        => /\ returned'.err \in {"chunk count mismatch", "store"}
           /\ returned'.set = None
           /\ TablesUnchanged
      ]_vars

\* C38 witness: chunks 1 and 2 of 2 were assembled, and chunk 3 declaring
\* total 2 came back with chunk count mismatch
C38_Witness ==
    /\ returned # <<>> /\ returned.call = "SaveChunk"
    /\ returned.err = "chunk count mismatch"
    /\ returned.chunk.Seq = 3 /\ returned.chunk.Total = 2
    /\ [upload_id |-> "U1", kind |-> "main", total |-> 2] \in assembledAt
    /\ SeqsStored(hivemoji_chunks, "U1", "main") = {1, 2}
    /\ \E r \in hivemoji_chunk_sets : r.completed /\ r.total = 2

-----------------------------------------------------------------------------
(* The claims about the follower over uploads, retries and restarts.       *)



\* C35: a v2 chunk sent with an empty kind is stored under kind main: no
\* chunk or chunk set row has an empty kind, the chunk's row is at
\* (upload_id, main, seq) and counts with the main-kind chunks of its upload
\* (one more main chunk when its seq is new), and the tables after it are
\* those the same chunk sent with kind main leaves, assembly included.
C35_EmptyKindIsMain ==
    [][ (Handles(2, "chunk") /\ Message.Kind = "")
        => LET asMain == handlePayload(hivemoji_assets, hivemoji_chunk_sets,
                                       hivemoji_chunks,
                                       [Message EXCEPT !.Kind = "main"], Signer, 0)
               isNew  == Message.Seq \notin
                            SeqsStored(hivemoji_chunks, Message.ID, "main")
           IN  /\ \A r \in hivemoji_chunks' \cup hivemoji_chunk_sets' : r.kind # ""
               /\ Message.Seq \in SeqsStored(hivemoji_chunks', Message.ID, "main")
               /\ CountChunks(hivemoji_chunks', Message.ID, "main") =
                     CountChunks(hivemoji_chunks, Message.ID, "main")
                        + (IF isNew THEN 1 ELSE 0)
               /\ <<hivemoji_assets', hivemoji_chunk_sets', hivemoji_chunks'>> =
                     <<asMain.assets, asMain.sets, asMain.chunks>>
      ]_vars

\* C35 witness: chunk 1 sent with kind main and, in a later block, chunk 2
\* sent with an empty kind made one completed main set holding "AB"
C35_Witness ==
    /\ \E m, n \in Blocks : /\ m < n
                            /\ chain[m] = Some(<<<<GrinMain1>>>>)
                            /\ chain[n] = Some(<<<<GrinMain2>>>>)
    /\ GrinMain2.JSON[1].Kind = "" /\ GrinMain1.JSON[1].Kind = "main"
    /\ \E r \in hivemoji_chunk_sets :
          /\ r.upload_id = "U2" /\ r.kind = "main" /\ r.completed
          /\ r.data = Some(<<65, 66>>)
    /\ {<<r.kind, r.seq>> : r \in hivemoji_chunks} = {<<"main", 1>>, <<"main", 2>>}

\* C36: the cursor never decreases: every step of the follower, its
\* failures and restarts among them (one whose read of the cursor fails too),
\* leaves in sync_state a block number at or above the one stored before.
C36_CursorNeverDecreases ==
    [][ LastBlock(sync_state').n >= LastBlock(sync_state).n ]_vars

\* the bytes of the uploads the producers send, by upload id and kind, one
\* byte per chunk
Uploads(id, kind) ==
    CASE id = "U2" /\ kind = "main"     -> <<65, 66>>
      [] id = "U2" /\ kind = "fallback" -> <<66>>
      [] id = "U1" /\ kind = "main"     -> <<65>>
      [] OTHER                          -> <<>>

\* the hivemoji operations of the chain c up to block n, as handlePayload
\* gets them
RECURSIVE HivemojiOn(_, _)
HivemojiOn(c, n) ==
    IF n < MinBlock THEN {}
    ELSE HivemojiOn(c, n - 1) \cup
         (IF c[n] = None THEN {}
          ELSE LET ops == Operations(c[n][1])
               IN  {Hivemoji(ops[i])[1] : i \in {j \in 1..Len(ops) : IsHivemoji(ops[j])}})

\* the operation is well-formed: version 1 or 2, a supported op, valid
\* base64, a non-blank author, and for a chunk total > 0, kind main or
\* fallback (empty for main), the total of its upload and kind, a seq
\* within 1..total, and a checksum empty or that of the upload's bytes
WellFormed(h) ==
    LET m == h.payload
        kind == DefaultKind(m.Kind)
    IN  /\ m.Decodes /\ m.Version \in {1, 2}
        /\ ~IsBlank(h.author)
        /\ Base64Decode(m.Data).err = ""
        /\ m.Fallback # None => Base64Decode(m.Fallback[1].Data).err = ""
        /\ m.Version = 1 => m.Op \in {"register", "delete"}
        /\ m.Version = 2 => m.Op \in {"chunk", "register", ""}
        /\ CarriesChunk(m)
              => /\ m.Total > 0
                 /\ kind \in {"main", "fallback"}
                 /\ m.Total = Len(Uploads(m.ID, kind))
                 /\ m.Seq \in 1..m.Total
                 /\ Base64Decode(m.Data).bytes = <<Uploads(m.ID, kind)[m.Seq]>>
                 /\ ChecksumOk(m.Checksum, Uploads(m.ID, kind))

\* the operation's loop field is one parseLoop accepts
LoopAccepted(h) == parseLoop(h.payload.Loop).err = ""

C39_ChunkStateGrows ==
    [][ /\ hivemoji_chunks \subseteq hivemoji_chunks'
        /\ \A s \in hivemoji_chunk_sets :
              s.completed => Completed(hivemoji_chunk_sets', s.upload_id, s.kind)
      ]_vars

\* C39 witness: the main set completed by chunks 1 and 2 is still completed
\* after a third chunk declaring a total of four was stored, in a block
\* that was processed more than once
C39_Witness ==
    /\ \E s \in hivemoji_chunk_sets :
          /\ s.upload_id = "U2" /\ s.kind = "main" /\ s.completed /\ s.total = 4
          /\ s.data = Some(<<65, 66>>)
    /\ SeqsStored(hivemoji_chunks, "U2", "main") = {1, 2, 3}
    /\ first # None /\ first[1].chunks # {} /\ first[1].chunks # hivemoji_chunks
    /\ ret # None /\ ret[1].err = "store" /\ pc = "process"

\* the operations of the block in process that ProcessBlock passed before
\* the one at hand
Prefix == SubSeq(Operations(block[1].Transactions), 1, idx)

\* how many of the operations ops are hivemoji operations
RECURSIVE CountHivemoji(_)
CountHivemoji(ops) ==
    IF Len(ops) = 0 THEN 0
    ELSE (IF IsHivemoji(Head(ops)) THEN 1 ELSE 0) + CountHivemoji(Tail(ops))

\* no ProcessBlock call on the block in process has returned yet
FirstPass == ret = None \/ ret[1].Number # block[1].Number

\* C40: ProcessBlock is not atomic.  When the handler of an operation of a
\* block fails, the operations before it were all handled in this call and
\* their changes are in the tables after the failure (applying them again
\* changes nothing, and on the first pass the tables are those before the
\* block with these operations applied), while the cursor and current stay;
\* and the next fetch hands ProcessBlock the same block from its first
\* operation.
C40_NotAtomic ==
    [][ /\ (Dispatches /\ HandlerError # "")
           => LET again == ApplyBlock(hivemoji_assets', hivemoji_chunk_sets',
                                      hivemoji_chunks', Prefix)
                  once  == ApplyBlock(first[1].assets, first[1].sets, first[1].chunks,
                                      Prefix)
              IN  /\ Len(applied) = CountHivemoji(Prefix)
                  /\ \A i \in 1..Len(applied) : applied[i].err = ""
                  /\ again.err = ""
                  /\ <<again.assets, again.sets, again.chunks>> = Tables'
                  /\ FirstPass => <<once.assets, once.sets, once.chunks>> = Tables'
                  /\ sync_state' = sync_state
                  /\ current' = current /\ current = block[1].Number
                  /\ pc' = "loop"
        /\ (pc = "loop" /\ pc' = "process" /\ ret # None /\ ret[1].err # "")
           => /\ block'[1].Number = ret[1].Number
              /\ block'[1].Transactions = chain[ret[1].Number][1]
              /\ idx' = 0 /\ applied' = <<>>
              /\ TablesUnchanged
      ]_vars

\* C40 witness: the second operation of a block, a v1 rename, failed after
\* the register before it had written its asset; the cursor was not written,
\* and the retry has handled the register again
C40_Witness ==
    /\ ret # None /\ ret[1].err = "unknown v1 op"
    /\ pc = "process" /\ block[1].Number = ret[1].Number /\ idx = 1
    /\ Operations(block[1].Transactions) = <<RegisterSmile, RenameV1>>
    /\ applied = <<[op |-> RegisterSmile, err |-> ""]>>
    /\ first # None /\ first[1].Number = block[1].Number /\ first[1].assets = {}
    /\ \E r \in hivemoji_assets : r.author = "alice" /\ r.name = "smile"
    /\ LastBlock(sync_state).n < block[1].Number

====
